---- MODULE Spec2Model ----
(***************************************************************************)
(* Chat core of the accounting portal: room access, the message store      *)
(* (messages, reactions, participants), the REST handlers of               *)
(* apps/chat/views.py, the store methods of ChatConsumer, the post_save    *)
(* receivers that create a room per service request, and the channel-layer *)
(* groups the handlers publish to.                                         *)
(*                                                                         *)
(* The database runs in autocommit mode (settings/base.py sets no          *)
(* ATOMIC_REQUESTS and no handler opens a transaction), so every ORM call  *)
(* is its own committed step.  The receivers of apps/service_requests/     *)
(* signals.py are connected; whether those of apps/chat/signals.py are is  *)
(* fixed per deployment by code outside the chat app (ChatConfig has no    *)
(* ready()), so both deployments are initial states.  The bodies of        *)
(* ChatConsumer.connect and ChatConsumer.receive are not in the repository *)
(* files: joining a room's group and the dispatch of inbound events to the *)
(* store methods follow the connection handler's description.  The Django  *)
(* admin site is not part of the model.                                    *)
(*                                                                         *)
(* The notification channel (NotificationConsumer, one group per user) and *)
(* the Celery tasks of apps/chat/tasks.py are modelled with the credential *)
(* resolution of JWTAuthMiddleware.get_user, the storage backend, the mail *)
(* backend and the broker's redelivery after self.retry; a backend call    *)
(* that can raise is a choice between its outcomes.  ChatConsumer.         *)
(* disconnect is not in the repository files either and follows the        *)
(* connection handler's description.                                       *)
(*                                                                         *)
(* Typing indicators (one row per room and user, the sweep of              *)
(* cleanup_old_typing_indicators, the 10-second typing-status query), the  *)
(* room list of ChatRoomListCreateView and the removal of a reaction in    *)
(* the steps the database sees (pre_delete receiver, DELETE, the view's    *)
(* publish) complete the store.  An answer to a message create keeps the   *)
(* type, attachment id and parent id the request carried.                  *)
(***************************************************************************)
EXTENDS Integers, Sequences, FiniteSets, TLC

\* ------------------------------------------------------------------ bounds
MaxRequests == 2        \* service requests that can be created
MaxMsgs == 2            \* message rows that can be inserted
MaxTime == 20           \* the clock stops advancing here (minutes)
TickMinutes == 5        \* one clock step
MaxInbox == 2           \* events a session's inbox holds in the model
MaxReactions == 3       \* reaction rows that can be inserted

\* --------------------------------------------------------- program constants
EditWindowMinutes == 15 \* ChatMessage.can_user_edit
CloseUnauthenticated == 4001 \* close code for an anonymous principal
CloseForbidden == 4003  \* close code for a refused room join

None == "none"
Users == {"c1", "c2", "a1", "a2", "ad"}
Roles == {"admin", "accountant", "client"}
\* User.role: set at registration, read-only in every serializer of the API.
RoleOf == [u \in Users |->
             CASE u \in {"c1", "c2"} -> "client"
               [] u \in {"a1", "a2"} -> "accountant"
               [] OTHER -> "admin"]

RequestIds == 1..MaxRequests
MessageTypes == {"text", "file", "system", "image", "document"}
Emojis == {"up"}
Conns == {"k1", "k2"}
Callers == {"x1", "x2"}
NotifyConns == {"n1", "n2"}

\* Attachments of the file store: fImg is an image, fDoc any other file;
\* fGone names no existing, non-deleted File row.
Files == {"fImg", "fDoc"}
FileIds == Files \cup {"fGone"}
MimeIsImage(f) == f = "fImg"

VARIABLES
  chatSignals,  \* whether the receivers of apps/chat/signals.py are connected
  now,          \* timezone.now(), in minutes
  requests,     \* service_requests rows: id -> [exists, client, accountant]
  pendingRecv,  \* per request: post_save receivers of its creation not yet run
  rooms,        \* chat_rooms rows: set of [id, request]
  messages,     \* chat_messages rows in insertion order; the index is the id
  threads,      \* message_threads rows: set of [parent, reply]
  reactions,    \* message_reactions rows: set of [id, message, user, emoji]
  nextReaction, \* next reaction row id
  reactCall,    \* in-flight react requests: caller -> [pc, user, message, emoji]
  participants, \* chat_participants rows: set of [room, user, last_read, last_seen]
  conn,         \* WebSocket sessions: conn -> [state, user, room]
  groups,       \* channel layer: set of <<group, conn>>
  inbox,        \* events delivered to each session, in order
  resp,         \* the last answer of a chat handler to its client
  nconn,        \* notification sessions: conn -> [state, cred, user, code]
  ninbox,       \* notifications delivered to each notification session
  job,          \* the export task: arguments, position, retries so far
  artifacts,    \* files written by default_storage.save, in order
  published,    \* group_send calls on user groups, in order
  mails,        \* send_mail calls, in order, with their outcome
  mailJob,      \* the new-message email task: arguments, position, retries
  typing,       \* typing_indicators rows: set of [room, user, updated_at]
  room_updated_at, \* per room: updated_at as saved by a message create (0: not yet)
  removeCall    \* the in-flight remove_reaction request: [pc, user, message, emoji]

\* The state of the background tasks.
taskVars == <<job, artifacts, published, mails, mailJob>>
\* The state outside the message handlers: the notification channel, the
\* background tasks, the typing indicators, the removal in flight.
\* The typing indicators, the rooms' timestamps, the removal in flight.
chatVars == <<typing, room_updated_at, removeCall>>
asyncVars == <<nconn, ninbox, taskVars, chatVars>>

vars == <<chatSignals, now, requests, pendingRecv, rooms, messages, threads, reactions,
          nextReaction, reactCall, participants, conn, groups, inbox, resp,
          asyncVars>>

NoRequest == [exists |-> FALSE, client |-> None, accountant |-> None]
NoCall == [pc |-> "idle", user |-> None, message |-> 0, emoji |-> None,
           status |-> 0]
NoConn == [state |-> "connecting", user |-> None, room |-> 0, code |-> 0]
\* No message create request: the input field of every other answer.
NoInput == [mtype |-> None, fid |-> None, parent |-> 0]
NoResp == [op |-> "none", user |-> None, target |-> 0, arg |-> None,
           status |-> 0, seq |-> 0, input |-> NoInput]
NoNotifyConn == [state |-> "connecting", cred |-> None, user |-> None, code |-> 0]
NoDate == [given |-> FALSE, ok |-> FALSE, at |-> 0]
NoMailJob == [pc |-> "idle", message |-> 0, recipient_user_ids |-> {},
              retries |-> 0, delays |-> << >>]
NoRemoval == [pc |-> "idle", user |-> None, message |-> 0, emoji |-> None]
NoJob == [pc |-> "idle", room |-> 0, user |-> None, format |-> None,
          date_from |-> NoDate, date_to |-> NoDate, retries |-> 0,
          delays |-> << >>, outcome |-> None]

Init ==
  /\ chatSignals \in BOOLEAN
  /\ now = 0
  /\ requests = [r \in RequestIds |-> NoRequest]
  /\ pendingRecv = [r \in RequestIds |-> {}]
  /\ rooms = {}
  /\ messages = << >>
  /\ threads = {}
  /\ reactions = {}
  /\ nextReaction = 1
  /\ reactCall = [c \in Callers |-> NoCall]
  /\ participants = {}
  /\ conn = [k \in Conns |-> NoConn]
  /\ groups = {}
  /\ inbox = [k \in Conns |-> << >>]
  /\ resp = NoResp
  /\ nconn = [n \in NotifyConns |-> NoNotifyConn]
  /\ ninbox = [n \in NotifyConns |-> << >>]
  /\ job = NoJob
  /\ artifacts = << >>
  /\ published = << >>
  /\ mails = << >>
  /\ mailJob = NoMailJob
  /\ typing = {}
  /\ room_updated_at = [r \in RequestIds |-> 0]
  /\ removeCall = NoRemoval

\* A handler's answer to its client, with the request it answers (the
\* operation, the caller, the addressed object and, for an edit, the content
\* sent).  seq alternates so that two equal answers in a row are still two
\* answers.
AnswerArg(op, u, target, arg, status) ==
  [op |-> op, user |-> u, target |-> target, arg |-> arg, status |-> status,
   seq |-> 1 - resp.seq, input |-> NoInput]
Answer(op, u, target, status) == AnswerArg(op, u, target, None, status)
\* The answer to a message create, with the type, the attachment id and the
\* parent id the request carried.
AnswerCreate(op, u, target, status, mtype, fid, parent) ==
  [Answer(op, u, target, status) EXCEPT
     !.input = [mtype |-> mtype, fid |-> fid, parent |-> parent]]

\* ------------------------------------------------------------------ clock
Tick ==
  /\ now + TickMinutes <= MaxTime
  /\ now' = now + TickMinutes
  /\ UNCHANGED <<asyncVars, chatSignals, requests, pendingRecv, rooms, messages, threads, reactions,
                 nextReaction, reactCall, participants, conn, groups, inbox,
                 resp>>

\* ------------------------------------------------------- room access model
RoomIds == {rm.id : rm \in rooms}
RoomById(id) == CHOOSE rm \in rooms : rm.id = id
RoomsOf(r) == {rm \in rooms : rm.request = r}

\* can_user_access with the accountant branch comparing against the client.
can_user_access_wrong_party(rm, u) ==
  LET rq == requests[rm.request]
  IN  IF RoleOf[u] = "admin" THEN TRUE
      ELSE IF RoleOf[u] = "client" THEN rq.client = u
      ELSE IF RoleOf[u] = "accountant" THEN rq.client = u
      ELSE FALSE

\* ChatRoom.can_user_access
can_user_access(rm, u) ==
  LET rq == requests[rm.request]
  IN  IF RoleOf[u] = "admin" THEN TRUE
      ELSE IF RoleOf[u] = "client" THEN rq.client = u
      ELSE IF RoleOf[u] = "accountant" THEN rq.accountant = u
      ELSE FALSE

\* ------------------------------------------------- service requests, rooms
FreeRequestId == CHOOSE r \in RequestIds :
                   /\ ~requests[r].exists
                   /\ \A q \in RequestIds : q < r => requests[q].exists

\* The post_save receivers of ServiceRequest that are connected.
Receivers == IF chatSignals THEN {"chat", "service_requests"}
             ELSE {"service_requests"}

\* ServiceRequestListCreateView.create / perform_create: a caller who is
\* not a client gets 403 and nothing changes (the action is disabled); for a
\* client the INSERT commits, then post_save(created=True) runs the
\* connected receivers in the creating thread, one step each (the second
\* save is an update and triggers neither receiver).
CreateRequest(u) ==
  /\ RoleOf[u] = "client"
  /\ \E r \in RequestIds : ~requests[r].exists
  /\ requests' = [requests EXCEPT ![FreeRequestId] =
                    [exists |-> TRUE, client |-> u, accountant |-> None]]
  /\ pendingRecv' = [pendingRecv EXCEPT ![FreeRequestId] = Receivers]
  /\ UNCHANGED <<asyncVars, chatSignals, now, rooms, messages, threads, reactions, nextReaction,
                 reactCall, participants, conn, groups, inbox, resp>>

\* The room table without the one-to-one constraint.
RequestIsFree_unconstrained(r) == TRUE

\* ChatRoom.request is a OneToOneField: the insert of a second room for the
\* same request raises IntegrityError.
RequestIsFree(r) == RoomsOf(r) = {}

NewRoom(r) == [id |-> Cardinality(rooms) + 1, request |-> r]

\* apps/chat/signals.py create_chat_room: create inside try/except Exception.
ChatCreateRoom(r) ==
  /\ "chat" \in pendingRecv[r]
  /\ rooms' = IF RequestIsFree(r) THEN rooms \cup {NewRoom(r)} ELSE rooms
  /\ pendingRecv' = [pendingRecv EXCEPT ![r] = @ \ {"chat"}]
  /\ UNCHANGED <<asyncVars, chatSignals, now, requests, messages, threads, reactions, nextReaction,
                 reactCall, participants, conn, groups, inbox, resp>>

\* apps/service_requests/signals.py create_chat_room: get_or_create.
ServiceRequestCreateRoom(r) ==
  /\ "service_requests" \in pendingRecv[r]
  /\ rooms' = IF RoomsOf(r) # {} THEN rooms
              ELSE IF RequestIsFree(r) THEN rooms \cup {NewRoom(r)} ELSE rooms
  /\ pendingRecv' = [pendingRecv EXCEPT ![r] = @ \ {"service_requests"}]
  /\ UNCHANGED <<asyncVars, chatSignals, now, requests, messages, threads, reactions, nextReaction,
                 reactCall, participants, conn, groups, inbox, resp>>

\* ServiceRequestAssignSerializer.validate_accountant_id
IsActiveAccountant(u) == RoleOf[u] = "accountant"

\* service_requests/views.py assign_request: 403 unless the caller is an
\* admin or the current accountant, 400 unless the target is an active
\* accountant; both leave the request unchanged.
AssignRequest(by, r, to) ==
  /\ requests[r].exists
  /\ RoleOf[by] = "admin" \/ requests[r].accountant = by
  /\ IsActiveAccountant(to)
  /\ requests' = [requests EXCEPT ![r].accountant = to]
  /\ UNCHANGED <<asyncVars, chatSignals, now, pendingRecv, rooms, messages, threads, reactions,
                 nextReaction, reactCall, participants, conn, groups, inbox,
                 resp>>

\* Requests whose creation has returned.
Created(r) == requests[r].exists /\ pendingRecv[r] = {}

\* --------------------------------------------------------- channel layer
RoomGroup(rid) == <<"chat", rid>>
Subscribers(g) == {k \in Conns : <<g, k>> \in groups}
CanDeliver(g) == \A k \in Subscribers(g) : Len(inbox[k]) < MaxInbox

\* channel_layer.group_send: one copy of the event to every session that is
\* in the group now.
Publish(g, ev) ==
  [k \in Conns |-> IF k \in Subscribers(g) THEN Append(inbox[k], ev) ELSE inbox[k]]

MessageEvent(action, id) ==
  [type |-> "chat_message", action |-> action, message |-> id, user |-> None]

\* ----------------------------------------------------------- message store
MsgIds == 1..Len(messages)
RoomMsgIds(rid) == {i \in MsgIds : messages[i].room = rid}

\* ChatMessage.clean
clean(mtype, file) ==
  /\ ~(mtype = "file" /\ file = None)
  /\ ~(mtype \in {"text", "system"} /\ file # None)

NewMessage(rid, u, mtype, content, file) ==
  [room |-> rid, sender |-> u, mtype |-> mtype, content |-> content,
   file |-> file, is_read |-> FALSE, is_deleted |-> FALSE,
   is_edited |-> FALSE, created_at |-> now, edited_at |-> None]

\* ChatRoom.get_participants evaluates settings.AUTH_USER_MODEL.objects, and
\* AUTH_USER_MODEL is the string 'authentication.User': AttributeError.
get_participants_raises == TRUE

\* apps/chat/signals.py handle_new_message, the first post_save receiver of
\* ChatMessage: for a created, non-deleted message it calls get_participants
\* and the exception leaves ChatMessage.objects.create after the row is
\* committed; update_read_status, the second receiver, is then not called.
handle_new_message_raises == chatSignals /\ get_participants_raises

\* ChatParticipant.objects.get_or_create(room, user)
HasParticipant(ps, rid, u) == \E p \in ps : p.room = rid /\ p.user = u
get_or_create_participant(ps, rid, u) ==
  IF HasParticipant(ps, rid, u) THEN ps
  ELSE ps \cup {[room |-> rid, user |-> u, last_read |-> 0, last_seen |-> now]}
ParticipantOf(ps, rid, u) == CHOOSE p \in ps : p.room = rid /\ p.user = u

\* apps/chat/signals.py update_read_status: the sender's participant row,
\* when there is one, points at the new message.
update_read_status(ps, rid, u, id) ==
  {IF p.room = rid /\ p.user = u
     THEN [p EXCEPT !.last_read = id, !.last_seen = now] ELSE p : p \in ps}

\* The attachment lookup finding a row for every id.
file_exists_any(fid) == TRUE

\* File.objects.get(id=file_id, is_deleted=False)
file_exists(fid) == fid \in Files

\* A parent id that is no UUID at all.
MalformedId == -1

\* The message type create() stores for a given type and resolved file.
\* ChatMessageCreateSerializer.create, lines 194-205.
RestStoredType(mtype, file) ==
  IF file # None /\ mtype = "text"
    THEN (IF MimeIsImage(file) THEN "image" ELSE "document")
    ELSE mtype

\* ChatMessageCreateSerializer.validate plus the field validation of
\* content (required, not blank).
RestValid(mtype, content, fid) ==
  /\ content # ""
  /\ ~(mtype \in {"file", "image", "document"} /\ fid = None)

\* The thread link of create(): made when the parent names a message of the
\* same room, skipped otherwise.
ThreadLinks(rid, parent, reply) ==
  IF parent \in RoomMsgIds(rid) THEN {[parent |-> parent, reply |-> reply]} ELSE {}

\* ChatMessageViewSet.create with ChatMessageCreateSerializer: POST
\* rooms/<rid>/messages/ by the authenticated user u.  The permission
\* classes check authentication only (has_object_permission is not reached:
\* create never calls get_object) and get_serializer_context fetches the room
\* without an access check.
RestCreateMessage(u, rid, mtype, content, fid, parent) ==
  LET id == Len(messages) + 1
      file == fid
      stored == RestStoredType(mtype, file)
      row == NewMessage(rid, u, stored, content, file)
  IN
  /\ rid \in RoomIds
  /\ IF \/ ~RestValid(mtype, content, fid)
        \/ parent = MalformedId  \* UUIDField(parent_message_id)
        \/ (fid # None /\ ~file_exists(fid))
       THEN \* serializers.ValidationError
            /\ resp' = AnswerCreate("create", u, 0, 400, mtype, fid, parent)
            /\ UNCHANGED <<messages, threads, participants, inbox>>
     ELSE IF ~clean(stored, file)
       THEN \* ValidationError of ChatMessage.clean, raised by save()
            /\ resp' = AnswerCreate("create", u, 0, 400, mtype, fid, parent)
            /\ UNCHANGED <<messages, threads, participants, inbox>>
     ELSE IF handle_new_message_raises
       THEN \* the row is committed, the handler ends in the receiver
            /\ Len(messages) < MaxMsgs
            /\ messages' = Append(messages, row)
            /\ resp' = AnswerCreate("create", u, id, 500, mtype, fid, parent)
            /\ UNCHANGED <<threads, participants, inbox>>
     ELSE   /\ Len(messages) < MaxMsgs
            /\ CanDeliver(RoomGroup(rid))
            /\ messages' = Append(messages, row)
            /\ threads' = threads \cup
                 (IF parent # 0 THEN ThreadLinks(rid, parent, id) ELSE {})
            /\ inbox' = Publish(RoomGroup(rid), MessageEvent("message_created", id))
            /\ participants' = get_or_create_participant(
                 IF chatSignals THEN update_read_status(participants, rid, u, id)
                 ELSE participants, rid, u)
            /\ resp' = AnswerCreate("create", u, id, 201, mtype, fid, parent)
  \* message.room.save(update_fields=['updated_at']), reached after the
  \* broadcast of a created message only
  /\ room_updated_at' =
       IF resp'.status = 201 THEN [room_updated_at EXCEPT ![rid] = now]
       ELSE room_updated_at
  /\ UNCHANGED <<nconn, ninbox, taskVars, typing, removeCall, chatSignals, now,
                 requests, pendingRecv, rooms, reactions, nextReaction,
                 reactCall, conn, groups>>

\* ----------------------------------------------------- connection handler
\* check_room_access letting every principal into every room.
check_room_access_open(rid, u) == TRUE

\* ChatConsumer.check_room_access
check_room_access(rid, u) == rid \in RoomIds /\ can_user_access(RoomById(rid), u)

\* ChatConsumer.connect for a credential resolved to the principal u (None:
\* anonymous): reject the anonymous principal, check room access, join the
\* room's group and accept; any failure closes the connection.
WsConnect(k, u, rid) ==
  /\ conn[k].state = "connecting"
  /\ IF u = None \/ ~check_room_access(rid, u)
       THEN /\ conn' = [conn EXCEPT ![k] =
                 [state |-> "closed", user |-> None, room |-> 0,
                  code |-> IF u = None THEN CloseUnauthenticated ELSE CloseForbidden]]
            /\ UNCHANGED groups
       ELSE /\ conn' = [conn EXCEPT ![k] =
                 [state |-> "joined", user |-> u, room |-> rid, code |-> 0]]
            /\ groups' = groups \cup {<<RoomGroup(rid), k>>}
  /\ UNCHANGED <<asyncVars, chatSignals, now, requests, pendingRecv, rooms, messages, threads,
                 reactions, nextReaction, reactCall, participants, inbox, resp>>

\* The upgrade of the text type without a look at the MIME type.
WsStoredType_document(mtype, file) ==
  IF file # None /\ mtype = "text" THEN "document" ELSE mtype

\* The type ChatConsumer.create_message stores: a text type is upgraded from
\* the file's MIME type, any other type is kept as sent (lines 101-112).
WsStoredType(mtype, file) ==
  IF file # None /\ mtype = "text"
    THEN (IF MimeIsImage(file) THEN "image" ELSE "document")
    ELSE mtype

\* The send event of ChatConsumer.receive, delegated to
\* ChatConsumer.create_message(content, message_type, file_id,
\* parent_message_id) on a joined session.  create_message returns None when
\* the file is missing or when anything raises (clean, the post_save
\* receiver); only a returned message is published to the room's group.
WsSendMessage(k, content, mtype, fid, parent) ==
  LET rid == conn[k].room
      u == conn[k].user
      id == Len(messages) + 1
      stored == WsStoredType(mtype, fid)
      row == NewMessage(rid, u, stored, content, fid)
  IN
  /\ conn[k].state = "joined"
  /\ rid \in RoomIds
  /\ IF (fid # None /\ ~file_exists(fid)) \/ ~clean(stored, fid)
       THEN /\ resp' = AnswerCreate("ws_send", u, 0, 400, mtype, fid, parent)
            /\ UNCHANGED <<messages, threads, inbox>>
     ELSE IF handle_new_message_raises \/ parent = MalformedId
       THEN \* the row is committed; the receiver raises, or
            \* ChatMessage.objects.get(id=parent_message_id) raises
            \* ValidationError, which is no ChatMessage.DoesNotExist
            /\ Len(messages) < MaxMsgs
            /\ messages' = Append(messages, row)
            /\ resp' = AnswerCreate("ws_send", u, id, 500, mtype, fid, parent)
            /\ UNCHANGED <<threads, inbox>>
     ELSE   /\ Len(messages) < MaxMsgs
            /\ CanDeliver(RoomGroup(rid))
            /\ messages' = Append(messages, row)
            /\ threads' = threads \cup
                 (IF parent # 0 THEN ThreadLinks(rid, parent, id) ELSE {})
            /\ inbox' = Publish(RoomGroup(rid), MessageEvent("message_created", id))
            /\ resp' = AnswerCreate("ws_send", u, id, 201, mtype, fid, parent)
  /\ participants' = IF handle_new_message_raises
                             \/ (fid # None /\ ~file_exists(fid)) \/ ~clean(stored, fid)
                       THEN participants
                       ELSE IF chatSignals
                       THEN update_read_status(participants, rid, u, id)
                       ELSE participants
  \* room.save(update_fields=['updated_at']), line 136, reached when the
  \* message was created and no receiver raised
  /\ room_updated_at' =
       IF resp'.status = 201 THEN [room_updated_at EXCEPT ![rid] = now]
       ELSE room_updated_at
  /\ UNCHANGED <<nconn, ninbox, taskVars, typing, removeCall, chatSignals, now,
                 requests, pendingRecv, rooms, reactions, nextReaction,
                 reactCall, conn, groups>>

\* --------------------------------------------------------------- reactions
\* ChatMessageViewSet.get_queryset + get_object: the non-deleted messages of
\* the room, for a user who can access the room; anything else is 404.
Visible(u, rid, mid) ==
  /\ rid \in RoomIds
  /\ can_user_access(RoomById(rid), u)
  /\ mid \in RoomMsgIds(rid)
  /\ ~messages[mid].is_deleted

ReactionRows(mid, u, e) ==
  {x \in reactions : x.message = mid /\ x.user = u /\ x.emoji = e}

\* The reaction table without the uniqueness constraint.
TripleIsFree_unconstrained(mid, u, e) == TRUE

\* MessageReaction.Meta.unique_together = ['message', 'user', 'emoji']
TripleIsFree(mid, u, e) == ReactionRows(mid, u, e) = {}

ReactionEvent(action, mid, u) ==
  [type |-> "message_reaction", action |-> action, message |-> mid, user |-> u]

InFlight(c) == reactCall[c].pc \in {"delete", "insert", "publish"}

\* ChatMessageViewSet.react, first part: get_object and the validation of
\* the emoji; a message that is not visible answers 404.
ReactBegin(c, u, rid, mid, e) ==
  /\ ~InFlight(c)
  /\ Visible(u, rid, mid)
  /\ reactCall' = [reactCall EXCEPT ![c] =
                     [pc |-> "delete", user |-> u, message |-> mid, emoji |-> e,
                      status |-> 0]]
  /\ UNCHANGED <<asyncVars, chatSignals, now, requests, pendingRecv, rooms, messages, threads,
                 reactions, nextReaction, participants, conn, groups, inbox,
                 resp>>

\* n copies of one event to a group.
RECURSIVE PublishTimes(_, _, _, _)
PublishTimes(box, g, ev, n) ==
  IF n = 0 THEN box
  ELSE PublishTimes([k \in Conns |-> IF k \in Subscribers(g)
                                       THEN Append(box[k], ev) ELSE box[k]],
                    g, ev, n - 1)

\* MessageReactionCreateSerializer.create, lines 42-46: delete the rows of
\* the triple; pre_delete (handle_reaction_deletion, when connected)
\* publishes reaction_removed for each row.
ReactDelete(c) ==
  LET r == reactCall[c]
      rid == messages[r.message].room
      old == ReactionRows(r.message, r.user, r.emoji)
      n == IF chatSignals THEN Cardinality(old) ELSE 0
  IN
  /\ r.pc = "delete"
  /\ \A k \in Subscribers(RoomGroup(rid)) : Len(inbox[k]) + n <= MaxInbox
  /\ reactions' = reactions \ old
  /\ inbox' = PublishTimes(inbox, RoomGroup(rid),
                           ReactionEvent("reaction_removed", r.message, r.user), n)
  /\ reactCall' = [reactCall EXCEPT ![c].pc = "insert"]
  /\ UNCHANGED <<asyncVars, chatSignals, now, requests, pendingRecv, rooms, messages, threads,
                 nextReaction, participants, conn, groups, resp>>

\* MessageReactionCreateSerializer.create, line 48: insert the row; a row
\* of the same triple inserted meanwhile makes the insert fail with
\* IntegrityError (the request ends 500).  post_save
\* (handle_message_reaction, when connected) publishes reaction_added for
\* the new row.
ReactInsert(c) ==
  LET r == reactCall[c]
      rid == messages[r.message].room
  IN
  /\ r.pc = "insert"
  /\ IF TripleIsFree(r.message, r.user, r.emoji)
       THEN /\ nextReaction <= MaxReactions
            /\ CanDeliver(RoomGroup(rid))
            /\ reactions' = reactions \cup
                 {[id |-> nextReaction, message |-> r.message, user |-> r.user,
                   emoji |-> r.emoji]}
            /\ nextReaction' = nextReaction + 1
            /\ inbox' = PublishTimes(inbox, RoomGroup(rid),
                                     ReactionEvent("reaction_added", r.message, r.user),
                                     IF chatSignals THEN 1 ELSE 0)
            /\ reactCall' = [reactCall EXCEPT ![c].pc = "publish"]
       ELSE /\ reactCall' = [reactCall EXCEPT ![c].pc = "done", ![c].status = 500]
            /\ UNCHANGED <<reactions, nextReaction, inbox>>
  /\ UNCHANGED <<asyncVars, chatSignals, now, requests, pendingRecv, rooms, messages, threads,
                 participants, conn, groups, resp>>

\* ChatMessageViewSet.react, lines 229-243: the view publishes
\* reaction_added itself and answers 201.
ReactPublish(c) ==
  LET r == reactCall[c]
      rid == messages[r.message].room
  IN
  /\ r.pc = "publish"
  /\ CanDeliver(RoomGroup(rid))
  /\ inbox' = Publish(RoomGroup(rid),
                      ReactionEvent("reaction_added", r.message, r.user))
  /\ reactCall' = [reactCall EXCEPT ![c].pc = "done", ![c].status = 201]
  /\ UNCHANGED <<asyncVars, chatSignals, now, requests, pendingRecv, rooms, messages, threads,
                 reactions, nextReaction, participants, conn, groups, resp>>

\* ChatMessageViewSet.remove_reaction: get the caller's row of the emoji
\* (404 when there is none), delete it (pre_delete, when connected,
\* publishes reaction_removed), then publish reaction_removed.
RemoveReaction(u, rid, mid, e) ==
  LET n == IF chatSignals THEN 2 ELSE 1 IN
  /\ Visible(u, rid, mid)
  /\ Cardinality(ReactionRows(mid, u, e)) = 1
  /\ \A k \in Subscribers(RoomGroup(rid)) : Len(inbox[k]) + n <= MaxInbox
  /\ reactions' = reactions \ ReactionRows(mid, u, e)
  /\ inbox' = PublishTimes(inbox, RoomGroup(rid),
                           ReactionEvent("reaction_removed", mid, u), n)
  /\ UNCHANGED <<asyncVars, chatSignals, now, requests, pendingRecv, rooms, messages, threads,
                 nextReaction, reactCall, participants, conn, groups, resp>>

\* ------------------------------------------------------------ read state
\* ChatParticipant.get_unread_count, for the pointer last_read (0: none) of
\* user u in room rid, over the message rows msgs: the rows it counts.
participant_unread_ids(msgs, rid, u, last_read) ==
  {i \in 1..Len(msgs) :
     /\ msgs[i].room = rid
     /\ msgs[i].sender # u
     /\ (last_read # 0 => msgs[i].created_at > msgs[last_read].created_at)}
participant_unread_count(msgs, rid, u, last_read) ==
  Cardinality(participant_unread_ids(msgs, rid, u, last_read))

\* ChatRoom.get_unread_count: the rows it counts.
room_unread_ids(msgs, rid, u) ==
  {i \in 1..Len(msgs) :
     msgs[i].room = rid /\ ~msgs[i].is_read /\ msgs[i].sender # u}
room_unread_count(msgs, rid, u) == Cardinality(room_unread_ids(msgs, rid, u))

LastReadOf(ps, rid, u) ==
  IF HasParticipant(ps, rid, u) THEN ParticipantOf(ps, rid, u).last_read ELSE 0

\* ChatParticipant.mark_as_read: the pointer and last_seen of the
\* participant row, then is_read on the room's messages created at or before
\* the message and not sent by the user.
mark_as_read_participants(ps, rid, u, mid) ==
  {IF p.room = rid /\ p.user = u
     THEN [p EXCEPT !.last_read = mid, !.last_seen = now] ELSE p : p \in ps}

\* The update without the exclusion of the user's own messages.
mark_as_read_messages_with_own(msgs, rid, u, mid) ==
  [i \in 1..Len(msgs) |->
     IF msgs[i].room = rid /\ msgs[i].created_at <= msgs[mid].created_at
       THEN [msgs[i] EXCEPT !.is_read = TRUE] ELSE msgs[i]]

mark_as_read_messages(msgs, rid, u, mid) ==
  [i \in 1..Len(msgs) |->
     IF /\ msgs[i].room = rid
        /\ msgs[i].created_at <= msgs[mid].created_at
        /\ msgs[i].sender # u
       THEN [msgs[i] EXCEPT !.is_read = TRUE] ELSE msgs[i]]

ReadEvent(mid, u) ==
  [type |-> "messages_read", action |-> "messages_read", message |-> mid, user |-> u]

\* ChatMessageViewSet.mark_as_read: POST rooms/<rid>/messages/mark_as_read/
\* (a list route: get_object is not called, has_permission checks
\* authentication only).  BulkMarkAsReadSerializer answers 400 for a message
\* that is not of the room.
RestMarkAsRead(u, rid, mid) ==
  /\ rid \in RoomIds
  /\ IF mid \notin RoomMsgIds(rid)
       THEN /\ resp' = Answer("mark_read", u, mid, 400)
            /\ UNCHANGED <<messages, participants, inbox>>
       ELSE /\ CanDeliver(RoomGroup(rid))
            /\ participants' = mark_as_read_participants(
                                 get_or_create_participant(participants, rid, u),
                                 rid, u, mid)
            /\ messages' = mark_as_read_messages(messages, rid, u, mid)
            /\ inbox' = Publish(RoomGroup(rid), ReadEvent(mid, u))
            /\ resp' = Answer("mark_read", u, mid, 200)
  /\ UNCHANGED <<asyncVars, chatSignals, now, requests, pendingRecv, rooms, threads, reactions,
                 nextReaction, reactCall, conn, groups>>

\* The mark_read event of ChatConsumer.receive, delegated to
\* ChatConsumer.mark_messages_as_read(message_id) on a joined session; a
\* True result is published to the room's group.
WsMarkAsRead(k, mid) ==
  LET rid == conn[k].room
      u == conn[k].user
  IN
  /\ conn[k].state = "joined"
  /\ rid \in RoomIds
  /\ IF mid \notin RoomMsgIds(rid)
       THEN /\ resp' = Answer("mark_read", u, mid, 400)
            /\ UNCHANGED <<messages, participants, inbox>>
       ELSE /\ CanDeliver(RoomGroup(rid))
            /\ participants' = mark_as_read_participants(
                                 get_or_create_participant(participants, rid, u),
                                 rid, u, mid)
            /\ messages' = mark_as_read_messages(messages, rid, u, mid)
            /\ inbox' = Publish(RoomGroup(rid), ReadEvent(mid, u))
            /\ resp' = Answer("mark_read", u, mid, 200)
  /\ UNCHANGED <<asyncVars, chatSignals, now, requests, pendingRecv, rooms, threads, reactions,
                 nextReaction, reactCall, conn, groups>>

\* ------------------------------------------------------- edit, soft delete
\* can_user_edit without the edit window.
can_user_edit_any_age(m, u) ==
  IF m.mtype = "system" THEN FALSE ELSE m.sender = u

\* ChatMessage.can_user_edit
can_user_edit(m, u) ==
  IF m.mtype = "system" THEN FALSE
  ELSE m.sender = u /\ m.created_at > now - EditWindowMinutes

\* can_user_delete without the sender-or-admin condition.
can_user_delete_anyone(m, u) ==
  IF m.mtype = "system" THEN FALSE ELSE TRUE

\* ChatMessage.can_user_delete
can_user_delete(m, u) ==
  IF m.mtype = "system" THEN FALSE
  ELSE m.sender = u \/ RoleOf[u] = "admin"

\* ChatMessageViewSet.update with ChatMessageUpdateSerializer (PUT and
\* PATCH, both partial): get_object answers 404 for a message that is not
\* visible to u, a blank content fails validation (None: no content sent),
\* update() refuses unless can_user_edit, then sets is_edited and the
\* content; save() runs clean() and stamps edited_at; the view publishes
\* message_updated.
RestEditMessage(u, rid, mid, content) ==
  /\ rid \in RoomIds
  /\ mid \in MsgIds
  /\ IF ~Visible(u, rid, mid)
       THEN /\ resp' = AnswerArg("edit", u, mid, content, 404)
            /\ UNCHANGED <<messages, inbox>>
     ELSE IF content = "" \/ ~can_user_edit(messages[mid], u)
                          \/ ~clean(messages[mid].mtype, messages[mid].file)
       THEN /\ resp' = AnswerArg("edit", u, mid, content, 400)
            /\ UNCHANGED <<messages, inbox>>
     ELSE   /\ CanDeliver(RoomGroup(rid))
            /\ messages' = [messages EXCEPT
                 ![mid].is_edited = TRUE,
                 ![mid].content = IF content = None THEN @ ELSE content,
                 ![mid].edited_at = now]
            /\ inbox' = Publish(RoomGroup(rid), MessageEvent("message_updated", mid))
            /\ resp' = AnswerArg("edit", u, mid, content, 200)
  /\ UNCHANGED <<asyncVars, chatSignals, now, requests, pendingRecv, rooms, threads, reactions,
                 nextReaction, reactCall, participants, conn, groups>>

\* ChatMessageViewSet.destroy: 404 for a message not visible to u, 403
\* unless can_user_delete; then is_deleted is saved alone
\* (update_fields=['is_deleted'], after clean()) and message_deleted is
\* published.
RestDeleteMessage(u, rid, mid) ==
  /\ rid \in RoomIds
  /\ mid \in MsgIds
  /\ IF ~Visible(u, rid, mid)
       THEN /\ resp' = Answer("delete", u, mid, 404)
            /\ UNCHANGED <<messages, inbox>>
     ELSE IF ~can_user_delete(messages[mid], u)
       THEN /\ resp' = Answer("delete", u, mid, 403)
            /\ UNCHANGED <<messages, inbox>>
     ELSE IF ~clean(messages[mid].mtype, messages[mid].file)
       THEN /\ resp' = Answer("delete", u, mid, 500)
            /\ UNCHANGED <<messages, inbox>>
     ELSE   /\ CanDeliver(RoomGroup(rid))
            /\ messages' = [messages EXCEPT ![mid].is_deleted = TRUE]
            /\ inbox' = Publish(RoomGroup(rid), MessageEvent("message_deleted", mid))
            /\ resp' = Answer("delete", u, mid, 204)
  /\ UNCHANGED <<asyncVars, chatSignals, now, requests, pendingRecv, rooms, threads, reactions,
                 nextReaction, reactCall, participants, conn, groups>>

ClearedEvent(u) ==
  [type |-> "chat_cleared", action |-> "chat_cleared", message |-> 0, user |-> u]

\* views.py clear_chat_history: admins only (403 otherwise); every message
\* of the room gets is_deleted, chat_cleared is published.
ClearChatHistory(u, rid) ==
  /\ rid \in RoomIds
  /\ IF RoleOf[u] # "admin"
       THEN /\ resp' = Answer("clear", u, rid, 403)
            /\ UNCHANGED <<messages, inbox>>
       ELSE /\ CanDeliver(RoomGroup(rid))
            /\ messages' = [i \in MsgIds |->
                              IF messages[i].room = rid
                                THEN [messages[i] EXCEPT !.is_deleted = TRUE]
                                ELSE messages[i]]
            /\ inbox' = Publish(RoomGroup(rid), ClearedEvent(u))
            /\ resp' = Answer("clear", u, rid, 200)
  /\ UNCHANGED <<asyncVars, chatSignals, now, requests, pendingRecv, rooms, threads, reactions,
                 nextReaction, reactCall, participants, conn, groups>>

\* --------------------------------------------------------------- read paths
\* ChatMessageViewSet.get_queryset (list, retrieve)
ListMessages(u, rid) ==
  IF can_user_access(RoomById(rid), u)
    THEN {i \in RoomMsgIds(rid) : ~messages[i].is_deleted} ELSE {}

\* views.py search_messages: content__icontains=q over the room's
\* non-deleted messages (contents are single letters here).
SearchMessages(u, rid, q) ==
  IF can_user_access(RoomById(rid), u)
    THEN {i \in RoomMsgIds(rid) : ~messages[i].is_deleted /\ messages[i].content = q}
    ELSE {}

\* MessageThreadView.get_queryset
ThreadReplies(u, rid, parent) ==
  IF can_user_access(RoomById(rid), u) /\ parent \in RoomMsgIds(rid)
    THEN {i \in MsgIds : /\ [parent |-> parent, reply |-> i] \in threads
                         /\ ~messages[i].is_deleted}
    ELSE {}

\* tasks.py export_chat_messages, lines 292-317, without a date range
ExportMessages(u, rid) ==
  IF can_user_access(RoomById(rid), u)
    THEN {i \in RoomMsgIds(rid) : ~messages[i].is_deleted} ELSE {}

\* ChatRoomSerializer / ChatRoomListSerializer get_last_message:
\* messages.filter(is_deleted=False).last() under ordering created_at; the
\* candidates when several rows share the latest created_at.
LastMessage(rid) ==
  {i \in RoomMsgIds(rid) :
     /\ ~messages[i].is_deleted
     /\ \A j \in RoomMsgIds(rid) :
          ~messages[j].is_deleted => messages[j].created_at <= messages[i].created_at}

\* ------------------------------------------------- credentials, presence
\* A bearer credential as JWTAuthMiddleware.__call__ finds it in the query
\* string or in the Authorization header: absent, or a token that verifies
\* or not and carries a user_id claim or none.  GoneUserId is the id of no
\* row of the user table.
GoneUserId == "gone"
NoToken == [present |-> FALSE, valid |-> FALSE, user_id |-> None]
Credentials ==
  {NoToken} \cup
  [present : {TRUE}, valid : BOOLEAN, user_id : Users \cup {None, GoneUserId}]

\* get_user without the verification of the token.
get_user_unverified(tok) ==
  IF ~tok.present THEN None
  ELSE IF tok.user_id \in Users THEN tok.user_id
  ELSE None

\* JWTAuthMiddleware.get_user: the principal of a credential, None for
\* AnonymousUser (no token; InvalidToken, TokenError or
\* jwt.InvalidTokenError; no user_id claim; User.DoesNotExist).
get_user(tok) ==
  IF ~tok.present THEN None
  ELSE IF ~tok.valid THEN None
  ELSE IF tok.user_id = None THEN None
  ELSE IF tok.user_id \notin Users THEN None
  ELSE tok.user_id

UserGroup(u) == <<"user", u>>
NotifySubscribers(g) == {n \in NotifyConns : <<g, n>> \in groups}

\* channel_layer.group_discard left out.
group_discard_kept(gs, g, c) == gs

\* channel_layer.group_discard
group_discard(gs, g, c) == gs \ {<<g, c>>}

\* NotificationConsumer.connect: an anonymous principal is closed with 4001
\* before group_add and accept; any other joins its own group user_<id> and
\* is accepted.
NotifyConnect(n, tok) ==
  LET u == get_user(tok) IN
  /\ nconn[n].state = "connecting"
  /\ IF u = None
       THEN /\ nconn' = [nconn EXCEPT ![n] =
                 [state |-> "closed", cred |-> tok, user |-> None,
                  code |-> CloseUnauthenticated]]
            /\ UNCHANGED groups
       ELSE /\ nconn' = [nconn EXCEPT ![n] =
                 [state |-> "accepted", cred |-> tok, user |-> u, code |-> 0]]
            /\ groups' = groups \cup {<<UserGroup(u), n>>}
  /\ UNCHANGED <<chatVars, chatSignals, now, requests, pendingRecv, rooms, messages, threads,
                 reactions, nextReaction, reactCall, participants, conn, inbox,
                 resp, ninbox, taskVars>>

\* NotificationConsumer.disconnect, which the server runs after the
\* handshake for a close from either side and for a dropped connection (the
\* close code is not looked at): user_group_name exists exactly when connect
\* went past the anonymous check.
NotifyDisconnect(n, close_code) ==
  /\ nconn[n].state \in {"accepted", "closed"}
  /\ groups' = IF nconn[n].user # None
                 THEN group_discard(groups, UserGroup(nconn[n].user), n)
                 ELSE groups
  /\ nconn' = [nconn EXCEPT ![n].state = "disconnected"]
  /\ UNCHANGED <<chatVars, chatSignals, now, requests, pendingRecv, rooms, messages, threads,
                 reactions, nextReaction, reactCall, participants, conn, inbox,
                 resp, ninbox, taskVars>>

\* ChatConsumer.update_user_status: get_or_create the participant row and
\* stamp last_seen.
update_user_status(ps, rid, u) ==
  {IF p.room = rid /\ p.user = u THEN [p EXCEPT !.last_seen = now] ELSE p :
     p \in get_or_create_participant(ps, rid, u)}

\* ChatConsumer.disconnect: for a joined session, stamp the participant's
\* last_seen and leave the room's group; a session closed by connect holds
\* no subscription.
WsDisconnect(k, close_code) ==
  /\ conn[k].state \in {"joined", "closed"}
  /\ IF conn[k].state = "joined"
       THEN /\ groups' = group_discard(groups, RoomGroup(conn[k].room), k)
            /\ participants' = update_user_status(participants, conn[k].room,
                                                  conn[k].user)
       ELSE UNCHANGED <<groups, participants>>
  /\ conn' = [conn EXCEPT ![k].state = "disconnected"]
  /\ UNCHANGED <<asyncVars, chatSignals, now, requests, pendingRecv, rooms, messages,
                 threads, reactions, nextReaction, reactCall, inbox, resp>>

\* ----------------------------------------------------------- export task
max_retries == 3        \* @shared_task(bind=True, max_retries=3)
RetryBaseSeconds == 60  \* countdown=60 * (2 ** self.request.retries)
ExportFormats == {"json", "csv", "txt"}

\* The texts an export notification or email can carry as error_message:
\* the two fixed strings of the task, and str(exc) of an exception of the
\* storage backend or of the mail backend.
AccessDeniedText == "Access denied"
NotFoundText == "Object not found"
StorageErrorText == "str(OSError)"
MailErrorText == "Email notification failed: str(SMTPException)"

\* date_from / date_to as the request sends them: absent (None or ''), an
\* ISO timestamp, or a string fromisoformat rejects.
BadDate == [given |-> TRUE, ok |-> FALSE, at |-> 0]
DateAt(t) == [given |-> TRUE, ok |-> TRUE, at |-> t]

\* User.full_name
full_name(u) == <<"full_name", u>>

\* tasks.py lines 299-317 with is_deleted=False left out.
export_queryset_with_deleted(rid, df, dt) ==
  {i \in RoomMsgIds(rid) :
     /\ (df.given /\ df.ok) => messages[i].created_at >= df.at
     /\ (dt.given /\ dt.ok) => messages[i].created_at <= dt.at}

\* tasks.py lines 299-317: the room's non-deleted messages; a bound is
\* applied when it is given and parses, and a ValueError of fromisoformat
\* is logged and the bound dropped.
export_queryset(rid, df, dt) ==
  {i \in RoomMsgIds(rid) :
     /\ ~messages[i].is_deleted
     /\ (df.given /\ df.ok) => messages[i].created_at >= df.at
     /\ (dt.given /\ dt.ok) => messages[i].created_at <= dt.at}

\* order_by('created_at'): the orders the database may return, rows of
\* equal created_at in any order.
OrderedByCreatedAt(ids) ==
  {q \in [1..Cardinality(ids) -> ids] :
     /\ \A a, b \in 1..Cardinality(ids) : a # b => q[a] # q[b]
     /\ \A a, b \in 1..Cardinality(ids) :
          a < b => messages[q[a]].created_at <= messages[q[b]].created_at}

\* ChatMessageExportSerializer.to_representation, for a message without a
\* file (file_name and file_url are skipped).
ChatMessageExportSerializer(i) ==
  [id |-> i,
   message_type |-> messages[i].mtype,
   content |-> messages[i].content,
   sender_name |-> full_name(messages[i].sender),
   sender_role |-> RoleOf[messages[i].sender],
   is_edited |-> messages[i].is_edited,
   created_at |-> messages[i].created_at,
   reactions |-> {[emoji |-> x.emoji, user_name |-> full_name(x.user)] :
                    x \in {y \in reactions : y.message = i}}]

\* export_as_json / export_as_csv / export_as_txt for the rows q: the room
\* header with the number of serialized rows, and one entry per row in the
\* order of q (the formats differ in framing).
export_as(fmt, rid, u, q) ==
  LET serialized_messages == [a \in DOMAIN q |-> ChatMessageExportSerializer(q[a])]
  IN  [format |-> fmt,
       room_info |-> [id |-> rid, exported_by |-> full_name(u),
                      message_count |-> Len(serialized_messages)],
       messages |-> serialized_messages]

\* file_path = f'chat_exports/{user_id}/{filename}'
ExportDir_shared(user_id) == <<"chat_exports", "shared">>
ExportDir(user_id) == <<"chat_exports", user_id>>
ExportFilename(fmt) == <<"chat_export", now, fmt>>

\* send_export_notification: the event of a success or of an error.
ExportEvent(level, filename, error_message) ==
  [type |-> "system_notification", level |-> level, filename |-> filename,
   error_message |-> error_message]

\* group_send on the group of a user id: the call, and the sessions of the
\* group that receive the event.
NotifyDeliver(box, g, ev) ==
  [n \in NotifyConns |-> IF n \in NotifySubscribers(g) THEN Append(box[n], ev)
                          ELSE box[n]]
NotifySent(log, g, ev) == Append(log, [group |-> g, event |-> ev])

\* send_mail(recipient_list=[user.email], fail_silently=False): the call
\* and whether the backend took the message (it raises otherwise).
Mail(to, subject, error_message, sent) ==
  [to |-> to, subject |-> subject, error_message |-> error_message, sent |-> sent]

\* The except clause an exception of the task body lands in, with the
\* not-found clause left out.
caught_by_generic(exc) == "generic"

\* The except clause an exception of the task body lands in (lines 355, 368).
caught_by(exc) ==
  IF exc \in {"ChatRoom.DoesNotExist", "User.DoesNotExist"} THEN "not_found"
  ELSE "generic"

\* export_chat_messages.delay(room_id, user_id, export_format, date_from,
\* date_to): the task is queued with these arguments.
ExportEnqueue(room_id, user_id, fmt, df, dt) ==
  /\ job.pc = "idle"
  /\ job' = [NoJob EXCEPT !.pc = "run", !.room = room_id, !.user = user_id,
                          !.format = fmt, !.date_from = df, !.date_to = dt]
  /\ UNCHANGED <<chatVars, chatSignals, now, requests, pendingRecv, rooms, messages, threads,
                 reactions, nextReaction, reactCall, participants, conn, groups,
                 inbox, resp, mailJob, nconn, ninbox, artifacts, published, mails>>

\* One run of export_chat_messages up to default_storage.save (lines
\* 287-339), with the except clauses (lines 355-382).  storage_ok: whether
\* the storage backend writes the file or raises; mail_ok: whether the mail
\* backend takes the error email a handler sends.
ExportAttempt(storage_ok, mail_ok) ==
  LET rid == job.room
      uid == job.user
      exc == IF rid \notin RoomIds THEN "ChatRoom.DoesNotExist"
             ELSE IF uid \notin Users THEN "User.DoesNotExist"
             ELSE IF ~can_user_access(RoomById(rid), uid) THEN None
             ELSE IF ~storage_ok THEN "OSError"
             ELSE None
      \* the handlers fetch user and room again, both None when either fails
      user == IF uid \in Users /\ rid \in RoomIds THEN uid ELSE None
  IN
  /\ job.pc = "run"
  /\ IF exc # None /\ caught_by(exc) = "not_found"
       THEN /\ published' = NotifySent(published, UserGroup(uid),
                                       ExportEvent("error", None, NotFoundText))
            /\ ninbox' = NotifyDeliver(ninbox, UserGroup(uid),
                                       ExportEvent("error", None, NotFoundText))
            /\ mails' = IF user # None
                          THEN Append(mails, Mail(user, "failed", NotFoundText, mail_ok))
                          ELSE mails
            /\ job' = [job EXCEPT !.pc = "done", !.outcome = "not_found"]
            /\ UNCHANGED artifacts
     ELSE IF exc # None
       THEN /\ published' = NotifySent(published, UserGroup(uid),
                                       ExportEvent("error", None, StorageErrorText))
            /\ ninbox' = NotifyDeliver(ninbox, UserGroup(uid),
                                       ExportEvent("error", None, StorageErrorText))
            /\ mails' = IF user # None
                          THEN Append(mails, Mail(user, "failed", StorageErrorText, mail_ok))
                          ELSE mails
            /\ job' = IF job.retries < max_retries
                        THEN [job EXCEPT
                                !.pc = "retry",
                                !.delays = Append(@, RetryBaseSeconds * (2 ^ job.retries))]
                        ELSE [job EXCEPT !.pc = "done", !.outcome = "failed"]
            /\ UNCHANGED artifacts
     ELSE IF ~can_user_access(RoomById(rid), uid)
       THEN /\ mails' = Append(mails, Mail(uid, "failed", AccessDeniedText, mail_ok))
            /\ job' = [job EXCEPT !.pc = "done", !.outcome = "denied"]
            /\ UNCHANGED <<artifacts, published, ninbox>>
     ELSE /\ \E q \in OrderedByCreatedAt(
                        export_queryset(rid, job.date_from, job.date_to)) :
               artifacts' = Append(artifacts,
                                   [dir |-> ExportDir(uid),
                                    name |-> ExportFilename(job.format),
                                    content |-> export_as(job.format, rid, uid, q)])
          /\ job' = [job EXCEPT !.pc = "saved"]
          /\ UNCHANGED <<published, ninbox, mails>>
  /\ UNCHANGED <<chatVars, chatSignals, now, requests, pendingRecv, rooms, messages, threads,
                 reactions, nextReaction, reactCall, participants, conn, groups,
                 inbox, resp, mailJob, nconn>>

\* The broker delivers the task again once the countdown of self.retry has
\* passed; request.retries is one higher.
ExportRetry ==
  /\ job.pc = "retry"
  /\ job' = [job EXCEPT !.pc = "run", !.retries = @ + 1]
  /\ UNCHANGED <<chatVars, chatSignals, now, requests, pendingRecv, rooms, messages, threads,
                 reactions, nextReaction, reactCall, participants, conn, groups,
                 inbox, resp, mailJob, nconn, ninbox, artifacts, published, mails>>

\* Line 344: send_export_notification(user_id, room, filename, 'success').
ExportNotify ==
  LET ev == ExportEvent("success", artifacts[Len(artifacts)].name, None) IN
  /\ job.pc = "saved"
  /\ published' = NotifySent(published, UserGroup(job.user), ev)
  /\ ninbox' = NotifyDeliver(ninbox, UserGroup(job.user), ev)
  /\ job' = [job EXCEPT !.pc = "notified"]
  /\ UNCHANGED <<chatVars, chatSignals, now, requests, pendingRecv, rooms, messages, threads,
                 reactions, nextReaction, reactCall, participants, conn, groups,
                 inbox, resp, mailJob, nconn, artifacts, mails>>

\* Line 347: send_export_email_notification; when send_mail raises, the
\* function publishes an error notification with the exception's text, and
\* the task returns its result either way.
ExportEmail(mail_ok) ==
  LET ev == ExportEvent("error", artifacts[Len(artifacts)].name, MailErrorText) IN
  /\ job.pc = "notified"
  /\ mails' = Append(mails, Mail(job.user, "ready", None, mail_ok))
  /\ IF mail_ok THEN UNCHANGED <<published, ninbox>>
     ELSE /\ published' = NotifySent(published, UserGroup(job.user), ev)
          /\ ninbox' = NotifyDeliver(ninbox, UserGroup(job.user), ev)
  /\ job' = [job EXCEPT !.pc = "done", !.outcome = "completed"]
  /\ UNCHANGED <<chatVars, chatSignals, now, requests, pendingRecv, rooms, messages, threads,
                 reactions, nextReaction, reactCall, participants, conn, groups,
                 inbox, resp, mailJob, nconn, artifacts>>

\* ------------------------------------------------ new-message email task
\* ChatSettings.email_notifications of each user (default True; a2 has
\* switched it off).
email_notifications(u) == u # "a2"

\* Lines 35-42: the users of recipient_user_ids with email notifications
\* on, without the sender of the message.
MailRecipients(mid, ids) ==
  {u \in ids \cap Users : email_notifications(u) /\ u # messages[mid].sender}

\* The orders in which the recipients queryset (no order_by) can come.
RecipientOrders(us) ==
  {q \in [1..Cardinality(us) -> us] :
     \A a, b \in 1..Cardinality(us) : a # b => q[a] # q[b]}

\* The send_mail calls of one pass over q in which the call number
\* failing raises (0: none does): the calls before it took their message,
\* the calls after it are not made.
LoopMails(q, failing) ==
  [a \in 1..(IF failing = 0 THEN Len(q) ELSE failing) |->
     Mail(q[a], "new_message", None, a # failing)]

\* send_new_message_notification.delay(message_id, recipient_user_ids)
MailEnqueue(mid, ids) ==
  /\ mailJob.pc = "idle"
  /\ mailJob' = [NoMailJob EXCEPT !.pc = "run", !.message = mid,
                                  !.recipient_user_ids = ids]
  /\ UNCHANGED <<chatVars, chatSignals, now, requests, pendingRecv, rooms, messages, threads,
                 reactions, nextReaction, reactCall, participants, conn, groups,
                 inbox, resp, nconn, ninbox, job, artifacts, published, mails>>

\* One run of send_new_message_notification: ChatMessage.DoesNotExist ends
\* the task; otherwise one send_mail per recipient in queryset order, and
\* the first call that raises leaves the loop for the except clause, which
\* retries the task while retries < max_retries.
MailAttempt(failing) ==
  /\ mailJob.pc = "run"
  /\ IF mailJob.message \notin MsgIds
       THEN /\ mailJob' = [mailJob EXCEPT !.pc = "done"]
            /\ UNCHANGED mails
       ELSE \E q \in RecipientOrders(
                       MailRecipients(mailJob.message, mailJob.recipient_user_ids)) :
              /\ failing <= Len(q)
              /\ mails' = mails \o LoopMails(q, failing)
              /\ mailJob' =
                   IF failing # 0 /\ mailJob.retries < max_retries
                     THEN [mailJob EXCEPT
                             !.pc = "retry",
                             !.delays = Append(@, RetryBaseSeconds * (2 ^ mailJob.retries))]
                     ELSE [mailJob EXCEPT !.pc = "done"]
  /\ UNCHANGED <<chatVars, chatSignals, now, requests, pendingRecv, rooms, messages, threads,
                 reactions, nextReaction, reactCall, participants, conn, groups,
                 inbox, resp, nconn, ninbox, job, artifacts, published>>

\* The broker delivers the task again after the countdown.
MailRetry ==
  /\ mailJob.pc = "retry"
  /\ mailJob' = [mailJob EXCEPT !.pc = "run", !.retries = @ + 1]
  /\ UNCHANGED <<chatVars, chatSignals, now, requests, pendingRecv, rooms, messages, threads,
                 reactions, nextReaction, reactCall, participants, conn, groups,
                 inbox, resp, nconn, ninbox, job, artifacts, published, mails>>

\* ------------------------------------------------------- typing indicators
\* timedelta(minutes=5) of the sweep, timedelta(seconds=10) of the
\* typing-status query.
TypingTtlMinutes == 5
TypingWindowSeconds == 10

\* The values a client can send as is_typing: JSON true, JSON false, or no
\* such key.
IsTypingValues == {"true", "false", "absent"}
\* request.data.get('is_typing', False) under `if is_typing:`.
is_typing_truthy(v) == v = "true"

TypingRows(rows, rid, u) == {t \in rows : t.room = rid /\ t.user = u}

\* update_or_create inserting a row without looking for the pair's row.
update_or_create_indicator_insert(rows, rid, u) ==
  rows \cup {[room |-> rid, user |-> u, updated_at |-> now]}

\* TypingIndicator.objects.update_or_create(room, user, defaults): the row
\* of the pair is updated when there is one (auto_now refreshes updated_at),
\* inserted otherwise; unique_together = ['room', 'user'].
update_or_create_indicator(rows, rid, u) ==
  (rows \ TypingRows(rows, rid, u))
    \cup {[room |-> rid, user |-> u, updated_at |-> now]}

\* TypingIndicator.objects.filter(room, user).delete()
delete_indicator(rows, rid, u) == rows \ TypingRows(rows, rid, u)

TypingEvent(u, is_typing) ==
  [type |-> "typing_indicator",
   action |-> IF is_typing THEN "is_typing" ELSE "not_typing",
   message |-> 0, user |-> u]

\* views.set_typing_indicator: POST rooms/<rid>/typing/ by the
\* authenticated user u; 403 without room access; the status is published
\* to the room's group after the write, also when nothing was deleted.
RestSetTyping(u, rid, v) ==
  /\ rid \in RoomIds
  /\ IF ~can_user_access(RoomById(rid), u)
       THEN /\ resp' = AnswerArg("typing", u, rid, v, 403)
            /\ UNCHANGED <<typing, inbox>>
       ELSE /\ CanDeliver(RoomGroup(rid))
            /\ typing' = IF is_typing_truthy(v)
                           THEN update_or_create_indicator(typing, rid, u)
                           ELSE delete_indicator(typing, rid, u)
            /\ inbox' = Publish(RoomGroup(rid), TypingEvent(u, is_typing_truthy(v)))
            /\ resp' = AnswerArg("typing", u, rid, v, 200)
  /\ UNCHANGED <<nconn, ninbox, taskVars, room_updated_at, removeCall,
                 chatSignals, now, requests, pendingRecv, rooms, messages,
                 threads, reactions, nextReaction, reactCall, participants,
                 conn, groups>>

\* The typing event of ChatConsumer.receive, delegated to
\* ChatConsumer.set_typing_indicator(is_typing) on a joined session, for the
\* session's own room and user; a True result is published to the room's
\* group.
WsSetTyping(k, is_typing) ==
  LET rid == conn[k].room
      u == conn[k].user
  IN
  /\ conn[k].state = "joined"
  /\ rid \in RoomIds
  /\ CanDeliver(RoomGroup(rid))
  /\ typing' = IF is_typing THEN update_or_create_indicator(typing, rid, u)
               ELSE delete_indicator(typing, rid, u)
  /\ inbox' = Publish(RoomGroup(rid), TypingEvent(u, is_typing))
  /\ resp' = AnswerArg("ws_typing", u, rid,
                       IF is_typing THEN "true" ELSE "false", 200)
  /\ UNCHANGED <<nconn, ninbox, taskVars, room_updated_at, removeCall,
                 chatSignals, now, requests, pendingRecv, rooms, messages,
                 threads, reactions, nextReaction, reactCall, participants,
                 conn, groups>>

\* The sweep removing what is not newer than the cutoff.
stale_indicators_inclusive(rows) ==
  {t \in rows : t.updated_at <= now - TypingTtlMinutes}

\* filter(updated_at__lt=timezone.now() - timedelta(minutes=5))
stale_indicators(rows) ==
  {t \in rows : t.updated_at < now - TypingTtlMinutes}

\* tasks.cleanup_old_typing_indicators, also
\* TypingIndicator.cleanup_old_indicators(minutes=5) of the admin endpoint
\* views.cleanup_typing_indicators.
cleanup_old_typing_indicators ==
  /\ typing' = typing \ stale_indicators(typing)
  /\ resp' = AnswerArg("cleanup_typing", None, 0, None,
                       Cardinality(stale_indicators(typing)))
  /\ UNCHANGED <<nconn, ninbox, taskVars, room_updated_at, removeCall,
                 chatSignals, now, requests, pendingRecv, rooms, messages,
                 threads, reactions, nextReaction, reactCall, participants,
                 conn, groups, inbox>>

\* ChatRoomSerializer.get_typing_users: the users of the room's indicators
\* refreshed within the last 10 seconds, without the requesting user.
get_typing_users(rid, u) ==
  {t.user : t \in {x \in typing :
                     /\ x.room = rid
                     /\ 60 * x.updated_at >= 60 * now - TypingWindowSeconds
                     /\ x.user # u}}

\* ------------------------------------------- reaction removal, step by step
\* ChatMessageViewSet.remove_reaction in the steps the database and the
\* channel layer see.  First part: get_object (404 for a message that is
\* not visible) and MessageReaction.objects.get of the caller's row (404
\* when there is none).
RemoveBegin(u, rid, mid, e) ==
  /\ removeCall.pc \in {"idle", "done"}
  /\ Visible(u, rid, mid)
  /\ IF ReactionRows(mid, u, e) = {}
       THEN /\ resp' = Answer("remove_reaction", u, mid, 404)
            /\ UNCHANGED removeCall
       ELSE /\ removeCall' = [pc |-> "pre_delete", user |-> u, message |-> mid,
                              emoji |-> e]
            /\ UNCHANGED resp
  /\ UNCHANGED <<nconn, ninbox, taskVars, typing, room_updated_at, chatSignals,
                 now, requests, pendingRecv, rooms, messages, threads,
                 reactions, nextReaction, reactCall, participants, conn,
                 groups, inbox>>

\* reaction.delete(), before the DELETE statement: the collector sends
\* pre_delete and handle_reaction_deletion, when connected, publishes
\* reaction_removed; a group_send that raises (layer_ok false) ends the
\* request before the row is deleted.
RemoveSignal(layer_ok) ==
  LET r == removeCall
      rid == messages[r.message].room
  IN
  /\ r.pc = "pre_delete"
  /\ IF ~chatSignals
       THEN /\ removeCall' = [r EXCEPT !.pc = "delete"]
            /\ UNCHANGED <<inbox, resp>>
     ELSE IF layer_ok
       THEN /\ CanDeliver(RoomGroup(rid))
            /\ inbox' = Publish(RoomGroup(rid),
                                ReactionEvent("reaction_removed", r.message, r.user))
            /\ removeCall' = [r EXCEPT !.pc = "delete"]
            /\ UNCHANGED resp
       ELSE /\ removeCall' = [r EXCEPT !.pc = "done"]
            /\ resp' = Answer("remove_reaction", r.user, r.message, 500)
            /\ UNCHANGED inbox
  /\ UNCHANGED <<nconn, ninbox, taskVars, typing, room_updated_at, chatSignals,
                 now, requests, pendingRecv, rooms, messages, threads,
                 reactions, nextReaction, reactCall, participants, conn,
                 groups>>

\* reaction.delete(), the DELETE statement, committed in autocommit mode.
RemoveDelete ==
  LET r == removeCall IN
  /\ r.pc = "delete"
  /\ reactions' = reactions \ ReactionRows(r.message, r.user, r.emoji)
  /\ removeCall' = [r EXCEPT !.pc = "publish"]
  /\ UNCHANGED <<nconn, ninbox, taskVars, typing, room_updated_at, chatSignals,
                 now, requests, pendingRecv, rooms, messages, threads,
                 nextReaction, reactCall, participants, conn, groups, inbox,
                 resp>>

\* Lines 258-273: the view publishes reaction_removed and answers 204; a
\* group_send that raises ends the request with the row deleted.
RemovePublish(layer_ok) ==
  LET r == removeCall
      rid == messages[r.message].room
  IN
  /\ r.pc = "publish"
  /\ IF layer_ok
       THEN /\ CanDeliver(RoomGroup(rid))
            /\ inbox' = Publish(RoomGroup(rid),
                                ReactionEvent("reaction_removed", r.message, r.user))
            /\ resp' = Answer("remove_reaction", r.user, r.message, 204)
       ELSE /\ resp' = Answer("remove_reaction", r.user, r.message, 500)
            /\ UNCHANGED inbox
  /\ removeCall' = [r EXCEPT !.pc = "done"]
  /\ UNCHANGED <<nconn, ninbox, taskVars, typing, room_updated_at, chatSignals,
                 now, requests, pendingRecv, rooms, messages, threads,
                 reactions, nextReaction, reactCall, participants, conn,
                 groups>>

\* ---------------------------------------------------------------- room list
\* ChatRoomListCreateView.get_queryset: the rooms listed to user u.
ChatRoomList(u) ==
  {rm.id : rm \in
     {x \in rooms :
        LET rq == requests[x.request] IN
        IF RoleOf[u] = "admin" THEN TRUE
        ELSE IF RoleOf[u] = "client" THEN rq.client = u
        ELSE IF RoleOf[u] = "accountant"
          THEN rq.accountant = u \/ rq.accountant = None
        ELSE FALSE}}

\* ChatRoomListSerializer: what the list shows of a room to user u.
ChatRoomListSerializer(rid, u) ==
  [id |-> rid,
   updated_at |-> room_updated_at[rid],
   last_message |-> {[content |-> messages[i].content,
                      sender |-> messages[i].sender,
                      created_at |-> messages[i].created_at,
                      message_type |-> messages[i].mtype] : i \in LastMessage(rid)},
   unread_count |-> room_unread_count(messages, rid, u)]

\* GET rooms/ by user u.
ListRooms(u) == {ChatRoomListSerializer(rid, u) : rid \in ChatRoomList(u)}

\* ----------------------------------------------------------- specifications
RequestActions ==
  \/ \E u \in Users : CreateRequest(u)
  \/ \E r \in RequestIds : ChatCreateRoom(r)
  \/ \E r \in RequestIds : ServiceRequestCreateRoom(r)
  \/ \E by \in Users, r \in RequestIds, to \in Users : AssignRequest(by, r, to)

\* Requests, their rooms and their assignment.
NextRooms == RequestActions
SpecRooms == Init /\ [][NextRooms]_vars

\* The specifications below follow one request, of client c1, and its room.
NoRequestYet == \A r \in RequestIds : ~requests[r].exists
OneRequestCreation ==
  \/ NoRequestYet /\ CreateRequest("c1")
  \/ \E r \in RequestIds : ChatCreateRoom(r)
  \/ \E r \in RequestIds : ServiceRequestCreateRoom(r)
OneRequestActions ==
  \/ OneRequestCreation
  \/ \E by \in Users, r \in RequestIds, to \in Users : AssignRequest(by, r, to)

\* Sending: REST create and the WebSocket send path, text messages.
NextSend ==
  \/ OneRequestActions
  \/ \E u \in Users, rid \in RequestIds :
       RestCreateMessage(u, rid, "text", "a", None, 0)
  \/ \E k \in Conns, u \in Users \cup {None}, rid \in RequestIds :
       WsConnect(k, u, rid)
  \/ \E k \in Conns : WsSendMessage(k, "a", "text", None, 0)
SpecSend == Init /\ [][NextSend]_vars

\* Sending with every message type and every attachment reference, by the
\* client of the request over REST and over one session.
NextTypes ==
  \/ OneRequestActions
  \/ \E rid \in RequestIds, mtype \in MessageTypes, fid \in {None} \cup FileIds :
       RestCreateMessage("c1", rid, mtype, "a", fid, 0)
  \/ \E u \in {"c1", "c2"}, rid \in RequestIds : WsConnect("k1", u, rid)
  \/ \E mtype \in MessageTypes, fid \in {None} \cup FileIds :
       WsSendMessage("k1", "a", mtype, fid, 0)
SpecTypes == Init /\ [][NextTypes]_vars

\* Reacting: concurrent react requests of the client and of the admin on
\* one message of the room.
NextReact ==
  \/ OneRequestCreation
  \/ \E rid \in RequestIds :
       messages = << >> /\ RestCreateMessage("c1", rid, "text", "a", None, 0)
  \/ \E c \in Callers, u \in {"c1", "ad"}, rid \in RequestIds, mid \in 1..MaxMsgs,
        e \in Emojis :
       ReactBegin(c, u, rid, mid, e)
  \/ \E c \in Callers : ReactDelete(c)
  \/ \E c \in Callers : ReactInsert(c)
  \/ \E c \in Callers : ReactPublish(c)
SpecReact == Init /\ [][NextReact]_vars

\* Reading: the client writes at different times, the admin marks messages
\* read over REST and over a session.
NextRead ==
  \/ OneRequestActions
  \/ Tick
  \/ \E rid \in RequestIds : RestCreateMessage("c1", rid, "text", "a", None, 0)
  \/ \E rid \in RequestIds, mid \in 1..MaxMsgs : RestMarkAsRead("ad", rid, mid)
  \/ \E rid \in RequestIds : WsConnect("k1", "ad", rid)
  \/ \E mid \in 1..MaxMsgs : WsMarkAsRead("k1", mid)
SpecRead == Init /\ [][NextRead]_vars

\* Editing: one text or system message of the client, of an accountant or
\* of a user outside the room, edited as time passes and the assignment
\* changes, possibly after the admin deleted it.
NextEdit ==
  \/ OneRequestActions
  \/ Tick
  \/ \E u \in {"c1", "c2", "a1"}, rid \in RequestIds, mtype \in {"text", "system"} :
       messages = << >> /\ RestCreateMessage(u, rid, mtype, "a", None, 0)
  \/ \E u \in {"c1", "c2", "a1", "ad"}, rid \in RequestIds, mid \in 1..MaxMsgs,
        content \in {"b", ""} :
       RestEditMessage(u, rid, mid, content)
  \/ \E rid \in RequestIds, mid \in 1..MaxMsgs : RestDeleteMessage("ad", rid, mid)
SpecEdit == Init /\ [][NextEdit]_vars

\* Deleting: text and system messages of the client and of an accountant,
\* deleted by them and by the admin while the assignment changes, watched
\* by one session of the admin.
NextDelete ==
  \/ OneRequestActions
  \/ \E u \in {"c1", "a1"}, rid \in RequestIds, mtype \in {"text", "system"} :
       RestCreateMessage(u, rid, mtype, "a", None, 0)
  \/ \E u \in {"c1", "a1", "ad"}, rid \in RequestIds, mid \in 1..MaxMsgs :
       RestDeleteMessage(u, rid, mid)
  \/ \E rid \in RequestIds : WsConnect("k1", "ad", rid)
SpecDelete == Init /\ [][NextDelete]_vars

\* History: the client writes messages and replies and deletes them, the
\* admin marks them read and clears the room.
NextHistory ==
  \/ OneRequestCreation
  \/ \E rid \in RequestIds, parent \in 0..1 :
       RestCreateMessage("c1", rid, "text", "a", None, parent)
  \/ \E rid \in RequestIds, mid \in 1..MaxMsgs : RestDeleteMessage("c1", rid, mid)
  \/ \E u \in {"c1", "ad"}, rid \in RequestIds : ClearChatHistory(u, rid)
  \/ \E rid \in RequestIds, mid \in 1..MaxMsgs : RestMarkAsRead("ad", rid, mid)
SpecHistory == Init /\ [][NextHistory]_vars

\* Connecting and disconnecting: chat sessions of the client, of an
\* outsider, of the admin and of the anonymous principal to rooms that exist
\* or not, notification sessions under every kind of credential.
CloseCodes == {1000, 1006}
ConnectCredentials ==
  {NoToken} \cup
  [present : {TRUE}, valid : BOOLEAN, user_id : {"c1", "ad", None, GoneUserId}]
NextConnect ==
  \/ OneRequestCreation
  \/ \E k \in Conns, u \in {"c1", "c2", "ad", None}, rid \in RequestIds :
       WsConnect(k, u, rid)
  \/ \E k \in Conns, code \in CloseCodes : WsDisconnect(k, code)
  \/ \E n \in NotifyConns, tok \in ConnectCredentials : NotifyConnect(n, tok)
  \/ \E n \in NotifyConns, code \in CloseCodes : NotifyDisconnect(n, code)
SpecConnect == Init /\ [][NextConnect]_vars


\* The export task with every argument it can be queued with: the room of
\* the request or a room id with no row, the client, an outsider, the
\* accountant or a user id with no row, while the request is assigned and
\* reassigned, the storage and mail backends work or fail, and the client
\* and the outsider hold notification sessions.
ExportCredentials == [present : {TRUE}, valid : {TRUE}, user_id : {"c1", "c2"}]
ExportActions ==
  \/ ExportRetry
  \/ ExportNotify
  \/ \E storage_ok \in BOOLEAN, mail_ok \in BOOLEAN : ExportAttempt(storage_ok, mail_ok)
  \/ \E mail_ok \in BOOLEAN : ExportEmail(mail_ok)
NextExportJob ==
  \/ OneRequestCreation
  \/ \E r \in RequestIds, to \in {"a1", "a2"} : AssignRequest("ad", r, to)
  \/ \E room_id \in RequestIds, user_id \in {"c1", "c2", "a1", GoneUserId},
        fmt \in ExportFormats :
       ExportEnqueue(room_id, user_id, fmt, NoDate, NoDate)
  \/ ExportActions
  \/ \E n \in NotifyConns, tok \in ExportCredentials : NotifyConnect(n, tok)
SpecExportJob == Init /\ [][NextExportJob]_vars

\* The json export of a room in which the client has written, reacted and
\* deleted over three clock steps, with a lower and an upper date bound that
\* are absent, valid or (the lower one) unparseable.
ExportContentStore ==
  \/ OneRequestCreation
  \/ now < 2 * TickMinutes /\ Tick
  \/ \E rid \in RequestIds : RestCreateMessage("c1", rid, "text", "a", None, 0)
  \/ \E rid \in RequestIds, mid \in 1..MaxMsgs : RestDeleteMessage("c1", rid, mid)
  \/ \E rid \in RequestIds, e \in Emojis : ReactBegin("x1", "c1", rid, 1, e)
  \/ ReactDelete("x1")
  \/ ReactInsert("x1")
  \/ ReactPublish("x1")
NextExportContent ==
  \/ job.pc = "idle" /\ ExportContentStore
  \/ \E room_id \in RequestIds, df \in {NoDate, BadDate, DateAt(TickMinutes)},
        dt \in {NoDate, DateAt(TickMinutes)} :
       ExportEnqueue(room_id, "c1", "json", df, dt)
  \/ ExportAttempt(TRUE, TRUE)
  \/ ExportNotify
  \/ ExportEmail(TRUE)
SpecExportContent == Init /\ [][NextExportContent]_vars

\* The email task for a message of the client, queued with any set of
\* recipient ids among the parties of the room and the admin, while the mail
\* backend takes or refuses each message.
NextMailJob ==
  \/ OneRequestCreation
  \/ \E rid \in RequestIds : RestCreateMessage("c1", rid, "text", "a", None, 0)
  \/ \E mid \in 1..MaxMsgs, ids \in SUBSET {"c1", "a1", "a2", "ad"} :
       MailEnqueue(mid, ids)
  \/ \E failing \in 0..2 : MailAttempt(failing)
  \/ MailRetry
SpecMailJob == Init /\ [][NextMailJob]_vars

\* Reaction events: the client reacts to its message and removes the
\* reaction over REST while sessions of the client and of the admin join the
\* room before or after.
NextReactEvents ==
  \/ OneRequestCreation
  \/ \E rid \in RequestIds :
       messages = << >> /\ RestCreateMessage("c1", rid, "text", "a", None, 0)
  \/ \E k \in Conns, u \in {"c1", "ad"}, rid \in RequestIds : WsConnect(k, u, rid)
  \/ \E rid \in RequestIds, e \in Emojis : ReactBegin("x1", "c1", rid, 1, e)
  \/ ReactDelete("x1")
  \/ ReactInsert("x1")
  \/ ReactPublish("x1")
  \/ \E rid \in RequestIds, e \in Emojis : RemoveReaction("c1", rid, 1, e)
SpecReactEvents == Init /\ [][NextReactEvents]_vars

\* The sweep: indicators of the client, an outsider and the admin in one
\* room, set and cleared over REST, the clock, the sweep at any time.
NextSweep ==
  \/ OneRequestCreation
  \/ \E u \in {"c1", "c2", "ad"}, rid \in RequestIds, v \in {"true", "false"} :
       RestSetTyping(u, rid, v)
  \/ cleanup_old_typing_indicators
  \/ Tick
SpecSweep == Init /\ [][NextSweep]_vars

\* Typing calls over REST and over a session of the admin, in the rooms of
\* the client's requests.
TwoRequests == Cardinality({r \in RequestIds : requests[r].exists}) >= 2
NextTyping ==
  \/ ~TwoRequests /\ CreateRequest("c1")
  \/ \E r \in RequestIds : ChatCreateRoom(r)
  \/ \E r \in RequestIds : ServiceRequestCreateRoom(r)
  \/ \E rid \in RequestIds, v \in IsTypingValues : RestSetTyping("ad", rid, v)
  \/ \E rid \in RequestIds : RestSetTyping("c1", rid, "true")
  \/ \E rid \in RequestIds : WsConnect("k1", "ad", rid)
  \/ \E is_typing \in BOOLEAN : WsSetTyping("k1", is_typing)
  \/ now < TickMinutes /\ Tick
SpecTyping == Init /\ [][NextTyping]_vars

\* Write before publish: one message of the client, edited, reacted to,
\* read and deleted over REST, typing calls, the removal of the reaction
\* step by step, observed by a session of the admin.  The react request and
\* the removal run one after the other, never at the same time.
NextOrder ==
  \/ OneRequestCreation
  \/ \E rid \in RequestIds :
       messages = << >> /\ RestCreateMessage("c1", rid, "text", "a", None, 0)
  \/ \E rid \in RequestIds : WsConnect("k1", "ad", rid)
  \/ \E rid \in RequestIds, e \in Emojis :
       removeCall.pc \in {"idle", "done"} /\ ReactBegin("x1", "c1", rid, 1, e)
  \/ ReactDelete("x1")
  \/ ReactInsert("x1")
  \/ ReactPublish("x1")
  \/ \E rid \in RequestIds, e \in Emojis :
       ~InFlight("x1") /\ RemoveBegin("c1", rid, 1, e)
  \/ \E layer_ok \in BOOLEAN : RemoveSignal(layer_ok)
  \/ RemoveDelete
  \/ \E layer_ok \in BOOLEAN : RemovePublish(layer_ok)
  \/ \E rid \in RequestIds : RestEditMessage("c1", rid, 1, "b")
  \/ \E rid \in RequestIds : RestDeleteMessage("c1", rid, 1)
  \/ \E rid \in RequestIds : RestMarkAsRead("ad", rid, 1)
  \/ \E rid \in RequestIds, v \in {"true", "false"} : RestSetTyping("c1", rid, v)
SpecOrder == Init /\ [][NextOrder]_vars

\* Attachments: every message type with every attachment reference, by the
\* client over REST and over one session, in one room; once the room has a
\* message only the missing attachment is sent.
NextAttach ==
  \/ OneRequestCreation
  \/ \E rid \in RequestIds, mtype \in MessageTypes, fid \in {None} \cup FileIds :
       (messages = << >> \/ fid = "fGone") /\ RestCreateMessage("c1", rid, mtype, "a", fid, 0)
  \/ \E rid \in RequestIds : WsConnect("k1", "c1", rid)
  \/ \E mtype \in MessageTypes, fid \in {None} \cup FileIds :
       (messages = << >> \/ fid = "fGone") /\ WsSendMessage("k1", "a", mtype, fid, 0)
  \/ now < TickMinutes /\ Tick
SpecAttach == Init /\ [][NextAttach]_vars

\* Replies: text messages of the client in the rooms of two requests, over
\* REST and over one session, with no parent, with the id of a message of
\* the same room or of the other room, with an id that names no message and
\* with a malformed id.
ParentIds == (0..(MaxMsgs + 1)) \cup {MalformedId}
NextThread ==
  \/ ~TwoRequests /\ CreateRequest("c1")
  \/ \E r \in RequestIds : ChatCreateRoom(r)
  \/ \E r \in RequestIds : ServiceRequestCreateRoom(r)
  \/ \E rid \in RequestIds, parent \in ParentIds :
       RestCreateMessage("c1", rid, "text", "a", None, parent)
  \/ \E rid \in RequestIds : WsConnect("k1", "c1", rid)
  \/ \E parent \in ParentIds : WsSendMessage("k1", "a", "text", None, parent)
SpecThread == Init /\ [][NextThread]_vars

\* Marking read: messages of the client and of the admin in the rooms of two
\* requests at two times, read by the admin over REST.
NextMarkRead ==
  \/ ~TwoRequests /\ CreateRequest("c1")
  \/ \E r \in RequestIds : ServiceRequestCreateRoom(r)
  \/ now < TickMinutes /\ Tick
  \/ \E u \in {"c1", "ad"}, rid \in RequestIds :
       RestCreateMessage(u, rid, "text", "a", None, 0)
  \/ \E rid \in RequestIds, mid \in 1..MaxMsgs : RestMarkAsRead("ad", rid, mid)
SpecMarkRead == Init /\ [][NextMarkRead]_vars

\* The room list: one request, its assignment, messages of the client,
\* written and deleted.
NextRoomList ==
  \/ OneRequestActions
  \/ \E rid \in RequestIds : RestCreateMessage("c1", rid, "text", "a", None, 0)
  \/ \E rid \in RequestIds, mid \in 1..MaxMsgs : RestDeleteMessage("c1", rid, mid)
SpecRoomList == Init /\ [][NextRoomList]_vars

\* Access to mark_as_read: one message of the client, marked read over REST
\* by the client, by another client, by an accountant and by the admin,
\* observed by a session of the admin.
NextReadAccess ==
  \/ OneRequestCreation
  \/ \E rid \in RequestIds :
       messages = << >> /\ RestCreateMessage("c1", rid, "text", "a", None, 0)
  \/ \E rid \in RequestIds : WsConnect("k1", "ad", rid)
  \/ \E u \in {"c1", "c2", "a1", "ad"}, rid \in RequestIds, mid \in 1..MaxMsgs :
       RestMarkAsRead(u, rid, mid)
SpecReadAccess == Init /\ [][NextReadAccess]_vars

\* ------------------------------------------------------------------ claims
\* C1: a message with sender P is stored in room R only if
\* can_user_access(R, P) holds when it is created, on the REST create path
\* and on the WebSocket send path.
C1_SenderHadAccess ==
  [][Len(messages') > Len(messages) =>
       can_user_access(RoomById(messages'[Len(messages')].room),
                       messages'[Len(messages')].sender)]_vars

\* C2: can_user_access(R, P) is true if and only if P has the admin role, or
\* P is the client of R's request, or P is its assigned accountant.
C2_AccessIffAdminOrParty ==
  \A rm \in rooms, u \in Users :
    can_user_access(rm, u) <=>
      \/ RoleOf[u] = "admin"
      \/ requests[rm.request].client = u
      \/ requests[rm.request].accountant = u

\* A room with an assigned accountant, open to the accountant and to the
\* client and closed to the other client.
C2_Witness ==
  \E rm \in rooms :
    /\ requests[rm.request].accountant = "a1"
    /\ requests[rm.request].client = "c1"
    /\ can_user_access(rm, "a1") /\ can_user_access(rm, "c1")
    /\ ~can_user_access(rm, "c2") /\ ~can_user_access(rm, "a2")

\* C3: every stored message of type file, image or document has an
\* attachment and every stored message of type text or system has none
\* (creates that would break this store nothing).
C3_TypeMatchesAttachment ==
  \A i \in MsgIds :
    /\ messages[i].mtype \in {"file", "image", "document"} => messages[i].file # None
    /\ messages[i].mtype \in {"text", "system"} => messages[i].file = None

\* C4: the handler that stores a message in room R also delivers one
\* message_created event for it to every session subscribed to R's group,
\* the sender's own sessions included.
C4_FanOutComplete ==
  [][Len(messages') > Len(messages) =>
       LET id == Len(messages')
           rid == messages'[id].room
       IN  \A k \in Subscribers(RoomGroup(rid)) :
             /\ Len(inbox'[k]) = Len(inbox[k]) + 1
             /\ inbox'[k][Len(inbox'[k])] = MessageEvent("message_created", id)]_vars

\* React requests on the triple (mid, u, e): those still between their
\* first and last step, and those that have answered.
ReactCallsOn(mid, u, e) ==
  {c \in Callers : /\ reactCall[c].message = mid /\ reactCall[c].user = u
                   /\ reactCall[c].emoji = e}

\* C5: the store never holds two reaction rows for one (message, user,
\* emoji) triple, and once React requests on the triple have answered and
\* none is in progress, however they interleaved, it holds exactly one.
C5_ExactlyOneRow ==
  \A mid \in MsgIds, u \in Users, e \in Emojis :
    /\ Cardinality(ReactionRows(mid, u, e)) <= 1
    /\ (/\ ReactCallsOn(mid, u, e) # {}
        /\ \A c \in ReactCallsOn(mid, u, e) : reactCall[c].pc = "done")
       => Cardinality(ReactionRows(mid, u, e)) = 1

\* Two interleaved React requests on one triple have both answered, one
\* with 201 and one with the IntegrityError of the insert, one row is left.
C5_Witness ==
  \E mid \in MsgIds, u \in Users, e \in Emojis :
    /\ ReactCallsOn(mid, u, e) = Callers
    /\ {reactCall[c].pc : c \in Callers} = {"done"}
    /\ {reactCall[c].status : c \in Callers} = {201, 500}
    /\ Cardinality(ReactionRows(mid, u, e)) = 1

\* C6: a successful MarkRead of a participant never moves the
\* participant's last-read pointer to an earlier message and never
\* increases the participant's unread count.
C6_MarkReadMonotonic ==
  [][(/\ resp' # resp
      /\ resp'.op = "mark_read"
      /\ resp'.status = 200
      /\ HasParticipant(participants, messages[resp'.target].room, resp'.user)
      /\ LastReadOf(participants, messages[resp'.target].room, resp'.user) # 0)
     => LET rid == messages[resp'.target].room
            u == resp'.user
            old == LastReadOf(participants, rid, u)
            new == LastReadOf(participants', rid, u)
        IN  /\ messages[new].created_at >= messages[old].created_at
            /\ participant_unread_count(messages', rid, u, new)
                 <= participant_unread_count(messages, rid, u, old)]_vars

\* The step is an answer of the edit handler.
EditAnswered == resp' # resp /\ resp'.op = "edit"

\* What an edit does to the message it addresses: a successful one sets the
\* edited flag and stamps the edit time, a rejected one leaves content,
\* edited flag and edit time as they were.
EditEffect ==
  LET mid == resp'.target IN
  /\ resp'.status = 200 =>
        /\ messages'[mid].is_edited
        /\ messages'[mid].edited_at = now
  /\ resp'.status # 200 =>
        /\ messages'[mid].content = messages[mid].content
        /\ messages'[mid].is_edited = messages[mid].is_edited
        /\ messages'[mid].edited_at = messages[mid].edited_at

\* C7: an edit succeeds if and only if the editor is the sender, the
\* message is not of type system and it was created less than 15 minutes
\* ago; success sets the edited flag and the edit time, rejection leaves
\* content, edited flag and edit time unchanged.
C7_EditIffSenderInWindow ==
  [][EditAnswered =>
       LET m == messages[resp'.target]
           u == resp'.user
       IN  /\ resp'.status = 200 <=>
                 /\ m.sender = u
                 /\ m.mtype # "system"
                 /\ now - m.created_at < EditWindowMinutes
           /\ EditEffect]_vars

\* C7, amended: an edit succeeds if and only if the message is not deleted,
\* the editor can access its room, the content sent is not blank, the editor
\* is the sender, the message is not of type system and it was created less
\* than 15 minutes ago; the effects are those of C7.
C7_EditIffVisibleSenderInWindow ==
  [][EditAnswered =>
       LET m == messages[resp'.target]
           u == resp'.user
       IN  /\ resp'.status = 200 <=>
                 /\ ~m.is_deleted
                 /\ can_user_access(RoomById(m.room), u)
                 /\ resp'.arg # ""
                 /\ m.sender = u
                 /\ m.mtype # "system"
                 /\ now - m.created_at < EditWindowMinutes
           /\ EditEffect]_vars

\* The sender's edit of a message written earlier has just succeeded.
C7_Witness ==
  /\ resp.op = "edit" /\ resp.status = 200
  /\ messages[resp.target].sender = resp.user
  /\ messages[resp.target].created_at < now
  /\ messages[resp.target].is_edited
  /\ messages[resp.target].edited_at = now
  /\ messages[resp.target].content = "b"

\* The step is an answer of the delete handler.
DeleteAnswered == resp' # resp /\ resp'.op = "delete"

\* What a delete does: a successful one sets the deleted flag of the
\* message and nothing else in the store, the row stays; a rejected one
\* leaves the store unchanged and publishes nothing.
DeleteEffect ==
  LET mid == resp'.target IN
  /\ resp'.status = 204 =>
        messages' = [messages EXCEPT ![mid].is_deleted = TRUE]
  /\ resp'.status # 204 => messages' = messages /\ inbox' = inbox

\* C8: a soft delete succeeds exactly when the requester is the message's
\* sender or has the admin role; success sets only the deleted flag and
\* keeps the row, rejection changes nothing and publishes no event.
C8_DeleteIffSenderOrAdmin ==
  [][DeleteAnswered =>
       LET m == messages[resp'.target]
           u == resp'.user
       IN  /\ resp'.status = 204 <=> (m.sender = u \/ RoleOf[u] = "admin")
           /\ DeleteEffect]_vars

\* C8, amended: a soft delete succeeds exactly when the message is not
\* already deleted, the requester can access its room, the message is not
\* of type system, and the requester is its sender or has the admin role;
\* the effects are those of C8.
C8_DeleteIffVisibleNonSystemSenderOrAdmin ==
  [][DeleteAnswered =>
       LET m == messages[resp'.target]
           u == resp'.user
       IN  /\ resp'.status = 204 <=>
                 /\ ~m.is_deleted
                 /\ can_user_access(RoomById(m.room), u)
                 /\ m.mtype # "system"
                 /\ (m.sender = u \/ RoleOf[u] = "admin")
           /\ DeleteEffect]_vars

\* The admin has just deleted another user's message and the subscribed
\* session has received message_deleted for it.
C8_Witness ==
  /\ resp.op = "delete" /\ resp.status = 204 /\ resp.user = "ad"
  /\ messages[resp.target].sender # "ad"
  /\ messages[resp.target].is_deleted
  /\ Len(inbox["k1"]) > 0
  /\ inbox["k1"][Len(inbox["k1"])] = MessageEvent("message_deleted", resp.target)

\* The messages some read path of room rid returns to, or counts for, user u.
ReadPathIds(u, rid) ==
  ListMessages(u, rid) \cup SearchMessages(u, rid, "a")
    \cup UNION {ThreadReplies(u, rid, parent) : parent \in MsgIds}
    \cup ExportMessages(u, rid) \cup LastMessage(rid)
    \cup room_unread_ids(messages, rid, u)
    \cup participant_unread_ids(messages, rid, u, LastReadOf(participants, rid, u))

\* C9: a message whose deleted flag is set is returned by no read path and
\* counted by neither unread count: listing, search, thread listing,
\* export, last-message preview, room unread count, participant unread
\* count.
C9_DeletedExcluded ==
  \A rid \in RoomIds, u \in Users :
    \A i \in ReadPathIds(u, rid) : ~messages[i].is_deleted

\* C10: every request has at most one chat room at any time, and exactly
\* one once its creation (with every connected post_save receiver) has
\* returned.
C10_OneRoomPerRequest ==
  \A r \in RequestIds :
    /\ Cardinality(RoomsOf(r)) <= 1
    /\ Created(r) => Cardinality(RoomsOf(r)) = 1

\* Both requests created, every receiver of both returned, one room each.
C10_Witness ==
  /\ chatSignals
  /\ \A r \in RequestIds : Created(r) /\ Cardinality(RoomsOf(r)) = 1
  /\ Cardinality(rooms) = MaxRequests

\* The credentials that resolve to the anonymous principal: no token, a
\* token that does not verify, a token naming no user.
AnonymousCredential(tok) == ~tok.present \/ ~tok.valid \/ tok.user_id \notin Users
InNoGroup(c) == \A p \in groups : p[2] # c

\* C11: a connection whose credential resolves to the anonymous principal
\* (missing, invalid or unknown-user token) is closed with code 4001, is in no
\* broadcast group and is never accepted; this holds for notification
\* sessions in every state and for every chat connect of the anonymous
\* principal.
C11_AnonymousClosed4001 ==
  /\ [](\A n \in NotifyConns :
          (nconn[n].state # "connecting" /\ AnonymousCredential(nconn[n].cred)) =>
             /\ nconn[n].state \in {"closed", "disconnected"}
             /\ nconn[n].code = CloseUnauthenticated
             /\ nconn[n].user = None
             /\ InNoGroup(n))
  /\ [](\A k \in Conns :
          conn[k].code = CloseUnauthenticated =>
            conn[k].state \in {"closed", "disconnected"} /\ InNoGroup(k))
  /\ [][\A k \in Conns, rid \in RequestIds :
          WsConnect(k, None, rid) =>
            /\ conn'[k].state = "closed"
            /\ conn'[k].code = CloseUnauthenticated
            /\ groups' = groups]_vars

\* A notification session refused for a verified token of a deleted user,
\* one refused for a token that does not verify, and a chat session refused
\* as anonymous.
C11_Witness ==
  /\ \E n \in NotifyConns :
       /\ nconn[n].state = "closed" /\ nconn[n].code = CloseUnauthenticated
       /\ nconn[n].cred.valid /\ nconn[n].cred.user_id = GoneUserId
  /\ \E n \in NotifyConns :
       /\ nconn[n].state = "closed" /\ nconn[n].code = CloseUnauthenticated
       /\ nconn[n].cred.present /\ ~nconn[n].cred.valid
       /\ nconn[n].cred.user_id = "c1"
  /\ \E k \in Conns : conn[k].state = "closed" /\ conn[k].code = CloseUnauthenticated

C13_DisconnectedInNoGroup ==
  /\ \A k \in Conns : conn[k].state = "disconnected" => InNoGroup(k)
  /\ \A n \in NotifyConns : nconn[n].state = "disconnected" => InNoGroup(n)

\* A joined chat session and an accepted notification session that have
\* disconnected, next to a refused notification session that has.
C13_Witness ==
  /\ \E k \in Conns : conn[k].state = "disconnected" /\ conn[k].user # None
  /\ \E n \in NotifyConns : nconn[n].state = "disconnected" /\ nconn[n].user # None
  /\ \E n \in NotifyConns :
       nconn[n].state = "disconnected" /\ nconn[n].code = CloseUnauthenticated

\* An export run that is about to fail for good: the room or the user has
\* no row, or the user cannot access the room.
ExportTerminal ==
  /\ job.pc = "run"
  /\ \/ job.room \notin RoomIds
     \/ job.user \notin Users
     \/ ~can_user_access(RoomById(job.room), job.user)

\* C14: an export run whose access check fails, or whose room or user does
\* not exist, ends the task: no retry is scheduled, the retry count stays,
\* no artifact is written, and a task ended this way stays ended.
C14_TerminalFailureNotRetried ==
  /\ [][(ExportTerminal /\ job' # job) =>
          /\ job'.pc = "done"
          /\ job'.outcome \in {"denied", "not_found"}
          /\ job'.delays = job.delays
          /\ job'.retries = job.retries
          /\ artifacts' = artifacts]_vars
  /\ [](job.outcome \in {"denied", "not_found"} =>
          job.pc = "done" /\ artifacts = << >>)

\* An export denied on its second run, after a storage failure and a
\* reassignment of the request took the accountant's access away.
C14_Witness ==
  /\ job.pc = "done" /\ job.outcome = "denied"
  /\ job.retries = 1 /\ job.user = "a1"

ExportErrorNotices == {i \in DOMAIN published : published[i].event.level = "error"}
ExportErrorMails == {i \in DOMAIN mails : mails[i].subject = "failed"}

\* C15: an export that hits a transient failure is run again at most 3
\* times, retry k (k = 0, 1, 2) after 60 * 2^k seconds, and a failure
\* notification or failure email exists only once the task has ended, not
\* while a retry is pending or running.
C15_BackoffThenOneFailureNotice ==
  /\ job.retries <= 3
  /\ Len(job.delays) <= 3
  /\ \A k \in DOMAIN job.delays : job.delays[k] = 60 * (2 ^ (k - 1))
  /\ job.pc # "done" => ExportErrorNotices = {} /\ ExportErrorMails = {}

C18_FailureNoticeAndEmailNoDetail ==
  /\ (job.pc = "done" /\ job.outcome \in {"denied", "not_found", "failed"}) =>
       /\ \E i \in ExportErrorNotices : published[i].group = <<"user", job.user>>
       /\ \E m \in ExportErrorMails : mails[m].to = job.user
  /\ \A i \in DOMAIN published :
       published[i].event.error_message \notin {StorageErrorText, MailErrorText}
  /\ \A m \in DOMAIN mails :
       mails[m].error_message \notin {StorageErrorText, MailErrorText}

\* The date bounds of the task form a range: each is absent or parses.
ExportRangeGiven == (job.date_from.given => job.date_from.ok)
                    /\ (job.date_to.given => job.date_to.ok)
\* The non-deleted messages of the task's room inside the requested range.
ExportExpected ==
  {i \in RoomMsgIds(job.room) :
     /\ ~messages[i].is_deleted
     /\ job.date_from.given => messages[i].created_at >= job.date_from.at
     /\ job.date_to.given => messages[i].created_at <= job.date_to.at}

\* C16: the artifact a json export writes for a date range lists exactly the
\* room's non-deleted messages of that range, one entry each, in ascending
\* creation order; room_info.message_count is the number of entries and
\* each entry carries the sender's name, the content, the creation time and
\* the reactions of its message.
C16_JsonExportExact ==
  [][(Len(artifacts') > Len(artifacts) /\ ExportRangeGiven) =>
       LET c == artifacts'[Len(artifacts')].content
           ms == c.messages
       IN  c.format = "json" =>
             /\ {ms[x].id : x \in DOMAIN ms} = ExportExpected
             /\ Len(ms) = Cardinality(ExportExpected)
             /\ \A x, y \in DOMAIN ms : x < y => ms[x].created_at <= ms[y].created_at
             /\ c.room_info.message_count = Len(ms)
             /\ \A x \in DOMAIN ms :
                  LET m == messages[ms[x].id] IN
                  /\ ms[x].sender_name = <<"full_name", m.sender>>
                  /\ ms[x].content = m.content
                  /\ ms[x].created_at = m.created_at
                  /\ ms[x].reactions =
                       {[emoji |-> r.emoji, user_name |-> <<"full_name", r.user>>] :
                          r \in {y \in reactions : y.message = ms[x].id}}]_vars

\* A json artifact with one entry, carrying a reaction, of a room whose
\* other message is deleted or outside the requested range.
C16_Witness ==
  /\ Len(messages) = 2
  /\ job.date_to.given
  /\ \E a \in DOMAIN artifacts :
       /\ artifacts[a].content.format = "json"
       /\ Len(artifacts[a].content.messages) = 1
       /\ artifacts[a].content.messages[1].reactions # {}

MailsTo(u) == {i \in DOMAIN mails : mails[i].subject = "new_message" /\ mails[i].to = u}

\* C19: in the new-message email task, once a run has ended every recipient
\* has had a send_mail call although the call for another recipient failed,
\* and over all runs no recipient is sent the email for the message more
\* than once.
C19_RecipientFailureIsolated ==
  (mailJob.pc \in {"retry", "done"} /\ mailJob.message \in MsgIds) =>
    /\ \A u \in MailRecipients(mailJob.message, mailJob.recipient_user_ids) :
         MailsTo(u) # {}
    /\ \A u \in Users : Cardinality({i \in MailsTo(u) : mails[i].sent}) <= 1

ReactionEventsIn(box, action) ==
  Cardinality({i \in DOMAIN box : box[i].type = "message_reaction"
                                  /\ box[i].action = action})

\* C20: a session receives at most one event per store mutation: never more
\* reaction_added events than reaction rows have been inserted, in one step
\* no more reaction_removed events than rows were deleted, and a session
\* that has not yet joined has received nothing.
C20_AtMostOncePerSession ==
  /\ [](\A k \in Conns :
          ReactionEventsIn(inbox[k], "reaction_added") <= nextReaction - 1)
  /\ [][\A k \in Conns :
          ReactionEventsIn(inbox'[k], "reaction_removed")
            - ReactionEventsIn(inbox[k], "reaction_removed")
          <= Cardinality(reactions \ reactions')]_vars
  /\ [](\A k \in Conns : conn[k].state = "connecting" => inbox[k] = << >>)

\* C21: a typing indicator untouched for more than 5 minutes is removed by
\* the next run of the sweep and is absent from every typing-status query,
\* for every requesting user, while it stays untouched; an indicator touched
\* within the last 5 minutes is never removed by the sweep.
IndicatorAge(t) == now - t.updated_at
C21_SweepRemovesOnlyStale ==
  /\ [](\A t \in typing : IndicatorAge(t) > 5 =>
          \A u \in Users : t.user \notin get_typing_users(t.room, u))
  /\ [][cleanup_old_typing_indicators =>
          /\ \A t \in typing : IndicatorAge(t) > 5 => t \notin typing'
          /\ \A t \in typing : IndicatorAge(t) <= 5 => t \in typing'
          /\ typing' \subseteq typing]_vars

\* A sweep has just removed an indicator while one touched within the last
\* 5 minutes is still there.
C21_Witness ==
  /\ resp.op = "cleanup_typing"
  /\ resp.status >= 1
  /\ \E t \in typing : IndicatorAge(t) <= 5

\* C24: there is at most one typing indicator per (room, user) after any
\* sequence of typing calls over REST and over sessions; an accepted
\* set-typing(true) leaves the caller's indicator of the room with
\* updated_at refreshed, an accepted set-typing(false) leaves none, and
\* neither changes the indicator of another user or of another room.
TypingAnswered ==
  /\ resp' # resp
  /\ resp'.op \in {"typing", "ws_typing"}
  /\ resp'.status = 200
OtherIndicators(rows, rid, u) == {t \in rows : ~(t.room = rid /\ t.user = u)}
UnreadExpected(rid, u) ==
  LET last == LastReadOf(participants, rid, u) IN
  Cardinality({i \in RoomMsgIds(rid) :
                 /\ messages[i].sender # u
                 /\ (last # 0 =>
                       messages[i].created_at > messages[last].created_at)})
C22_UnreadCountFromPointer ==
  \A rid \in RoomIds, u \in Users :
    /\ participant_unread_count(messages, rid, u, LastReadOf(participants, rid, u))
         = UnreadExpected(rid, u)
    /\ room_unread_count(messages, rid, u) = UnreadExpected(rid, u)

\* What the store holds once the mutation an event of room rid reports has
\* been applied.
EventApplied(ev, rid, msgs, reacts, parts, rows) ==
  CASE ev.type = "chat_message" ->
         /\ ev.message \in 1..Len(msgs)
         /\ ev.action = "message_updated" => msgs[ev.message].is_edited
         /\ ev.action = "message_deleted" => msgs[ev.message].is_deleted
    [] ev.type = "message_reaction" ->
         /\ ev.action = "reaction_added" =>
              \E x \in reacts : x.message = ev.message /\ x.user = ev.user
         /\ ev.action = "reaction_removed" =>
              ~\E x \in reacts : x.message = ev.message /\ x.user = ev.user
    [] ev.type = "messages_read" ->
         \E p \in parts : /\ p.room = rid /\ p.user = ev.user
                          /\ p.last_read = ev.message
    [] ev.type = "typing_indicator" ->
         (ev.action = "is_typing") = (TypingRows(rows, rid, ev.user) # {})
    [] OTHER -> TRUE

\* C23: for every mutation (create, edit, soft-delete, react,
\* remove-reaction, mark-read, set-typing) the write is committed before its
\* event is published: when a session receives an event the store already
\* holds the mutation the event reports, and an answer that reports a
\* failed publish leaves the committed write in the store.
C23_WriteBeforePublish ==
  /\ [][\A k \in Conns :
          \A i \in (Len(inbox[k]) + 1)..Len(inbox'[k]) :
            EventApplied(inbox'[k][i], conn[k].room, messages', reactions',
                         participants', typing')]_vars
  /\ [][(/\ resp' # resp
         /\ resp'.op = "remove_reaction"
         /\ resp'.status = 500
         /\ removeCall.pc = "publish")
        => ~\E x \in reactions' :
               x.message = resp'.target /\ x.user = resp'.user]_vars

\* A message create, over REST or over a session, has just been answered.
CreateAnswered == resp' # resp /\ resp'.op \in {"create", "ws_send"}
RowStored == Len(messages') = Len(messages) + 1

\* C25: a message created with an existing attachment and the type text is
\* stored with type image when the attachment's MIME type is an image type
\* and with type document otherwise; created with an attachment and another
\* type it is stored with that type; the REST path and the WebSocket path
\* give the same stored type for every type and attachment.
C25_StoredTypeFromAttachment ==
  /\ [][(CreateAnswered /\ RowStored /\ resp'.input.fid \in Files) =>
          LET given == resp'.input.mtype
              fid == resp'.input.fid
              row == messages'[Len(messages')]
          IN
          /\ row.file = fid
          /\ given = "text" =>
               row.mtype = IF MimeIsImage(fid) THEN "image" ELSE "document"
          /\ given # "text" => row.mtype = given]_vars
  /\ [](\A mtype \in MessageTypes, fid \in Files :
          RestStoredType(mtype, fid) = WsStoredType(mtype, fid))

\* A text message with the image attachment has just been stored as an
\* image over the session.
C25_Witness ==
  /\ resp.op = "ws_send"
  /\ resp.input.mtype = "text" /\ resp.input.fid = "fImg"
  /\ resp.target \in MsgIds
  /\ messages[resp.target].mtype = "image"
  /\ messages[resp.target].file = "fImg"

\* C27: a create whose attachment id names no existing, non-deleted
\* attachment fails and changes nothing: no message row, no thread link, no
\* change of the room's timestamp, no event published.
C27_MissingAttachmentNoEffect ==
  [][(/\ CreateAnswered
      /\ resp'.input.fid # None
      /\ resp'.input.fid \notin Files)
     => /\ resp'.status = 400
        /\ UNCHANGED <<messages, threads, room_updated_at, inbox, rooms,
                       participants>>]_vars

\* A create naming the missing attachment has just been refused over the
\* session while the room has a message.
C27_Witness ==
  /\ resp.op = "ws_send" /\ resp.input.fid = "fGone" /\ resp.status = 400
  /\ messages # << >>
  /\ now > 0

\* C26: a create with a parent id stores the message in every case; the
\* thread link (parent, new message) is made exactly when the parent id
\* names a message of the same room, and a parent id that names no message,
\* or a message of another room, gives the message without a link and
\* without an error.
C26_ThreadLinkIffSameRoomParent ==
  [][(/\ CreateAnswered
      /\ resp'.input.parent # 0
      /\ resp'.input.fid = None)
     => LET parent == resp'.input.parent
            id == Len(messages) + 1
            rid == messages'[id].room
            link == [parent |-> parent, reply |-> id]
        IN
        /\ RowStored
        /\ resp'.target = id
        /\ (link \in threads') = (parent \in RoomMsgIds(rid))
        /\ threads' \subseteq threads \cup {link}
        /\ parent \notin RoomMsgIds(rid) => resp'.status = 201]_vars

\* C28: an accepted MarkRead of message M by user u sets u's last-read
\* pointer of M's room to M and sets is_read on exactly the messages of that
\* room created at or before M and not sent by u; the user's own messages,
\* later messages, the messages of every other room and every other
\* participant row are left as they were.
MarkReadAnswered ==
  resp' # resp /\ resp'.op = "mark_read" /\ resp'.status = 200
C28_MarkReadFrame ==
  [][MarkReadAnswered =>
       LET u == resp'.user
           mid == resp'.target
           rid == messages[mid].room
       IN
       /\ LastReadOf(participants', rid, u) = mid
       /\ {p \in participants' : ~(p.room = rid /\ p.user = u)}
            = {p \in participants : ~(p.room = rid /\ p.user = u)}
       /\ Len(messages') = Len(messages)
       /\ \A i \in MsgIds :
            IF /\ messages[i].room = rid
               /\ messages[i].created_at <= messages[mid].created_at
               /\ messages[i].sender # u
              THEN messages'[i] = [messages[i] EXCEPT !.is_read = TRUE]
              ELSE messages'[i] = messages[i]]_vars

\* The admin has just marked the client's message read while the room also
\* holds an unread message of the admin.
C28_Witness ==
  /\ resp.op = "mark_read" /\ resp.status = 200 /\ resp.user = "ad"
  /\ resp.target \in MsgIds
  /\ messages[resp.target].sender = "c1" /\ messages[resp.target].is_read
  /\ \E i \in RoomMsgIds(messages[resp.target].room) :
       /\ messages[i].sender = "ad"
       /\ messages[i].created_at <= messages[resp.target].created_at
       /\ ~messages[i].is_read

\* C29: the REST mark_as_read of user P on a message of room R changes the
\* participant rows or the read flags, or publishes messages_read, only if
\* can_user_access(R, P) holds; without access the store and the sessions of
\* the room's group are left as they were.
C29_MarkReadNeedsAccess ==
  [][(/\ resp' # resp
      /\ resp'.op = "mark_read"
      /\ resp'.target \in MsgIds
      /\ ~can_user_access(RoomById(messages[resp'.target].room), resp'.user))
     => UNCHANGED <<participants, messages, inbox>>]_vars

\* C30: the room list returned to user P, with each room's last-message
\* preview, holds a room R only if can_user_access(R, P): an accountant is
\* shown no room whose request is unassigned or assigned to someone else.
C30_ListedOnlyWithAccess ==
  \A u \in Users :
    \A e \in ListRooms(u) : can_user_access(RoomById(e.id), u)

====
